---- MODULE Spec2Model ----
(***************************************************************************)
(* A model of ethersrv, the EtherDFS server: the main receive loop with    *)
(* its frame validation, the per-client answer cache, the request          *)
(* dispatcher process(), the handle table fsdb of fs.c and the host file   *)
(* system the server works on.                                             *)
(*                                                                         *)
(* Strings are sequences of byte values (a C string without its NUL).      *)
(* Host paths are strings; the host file system maps canonical paths       *)
(* (sequences of names) to nodes.                                          *)
(***************************************************************************)
EXTENDS Integers, Sequences, FiniteSets, TLC

----------------------------------------------------------------------------
(* Bytes and strings                                                       *)

Ascii ==
  <<" ", "!", "dquote", "#", "$", "%", "&", "'", "lparen", "rparen", "*", "+", ",", "-", ".", "/",
    "0", "1", "2", "3", "4", "5", "6", "7", "8", "9", ":", ";", "<", "=", ">", "?",
    "@", "A", "B", "C", "D", "E", "F", "G", "H", "I", "J", "K", "L", "M", "N", "O",
    "P", "Q", "R", "S", "T", "U", "V", "W", "X", "Y", "Z", "[", "bslash", "]", "^", "_",
    "btick", "a", "b", "c", "d", "e", "f", "g", "h", "i", "j", "k", "l", "m", "n", "o",
    "p", "q", "r", "s", "t", "u", "v", "w", "x", "y", "z", "{", "|", "}", "~">>

\* the byte value of a printable character
Ord(c) == 31 + (CHOOSE i \in 1..Len(Ascii) : Ascii[i] = c)

\* the string spelled by a tuple of characters
Str(t) == [i \in 1..Len(t) |-> Ord(t[i])]

SLASH == Ord("/")
BSLASH == Ord("bslash")
DOT == Ord(".")
QMARK == Ord("?")
SPACE == Ord(" ")
COLON == Ord(":")

\* s[i] of the C string s (0-based); the terminating NUL at and after its end
At(s, i) == IF i >= 0 /\ i < Len(s) THEN s[i + 1] ELSE 0

\* the C string held by a byte buffer: its bytes up to the first NUL
RECURSIVE CStr(_)
CStr(b) ==
  IF b = <<>> \/ Head(b) = 0 THEN <<>> ELSE <<Head(b)>> \o CStr(Tail(b))

\* s from 0-based index i on
From(s, i) == IF i >= Len(s) THEN <<>> ELSE SubSeq(s, i + 1, Len(s))

\* the first n bytes of s
Take(s, n) == IF n <= 0 THEN <<>> ELSE SubSeq(s, 1, IF n < Len(s) THEN n ELSE Len(s))

Min(a, b) == IF a < b THEN a ELSE b

\* F applied to the value v
Let(v, F(_)) == F(v)

Le16(n) == <<n % 256, (n \div 256) % 256>>

Le32(n) == <<n % 256, (n \div 256) % 256, (n \div 65536) % 256, (n \div 16777216) % 256>>

\* little-endian word / dword read from a byte buffer at 0-based offset o
Rd16(b, o) == At(b, o) + 256 * At(b, o + 1)

Rd32(b, o) == Rd16(b, o) + 65536 * Rd16(b, o + 2)

\* lexicographic order on strings (the order readdir lists a directory in)
RECURSIVE StrLess(_, _)
StrLess(a, b) ==
  IF b = <<>> THEN FALSE
  ELSE IF a = <<>> THEN TRUE
  ELSE IF Head(a) # Head(b) THEN Head(a) < Head(b)
  ELSE StrLess(Tail(a), Tail(b))

\* a finite set of strings as a sequence in lexicographic order
RECURSIVE SortStrs(_)
SortStrs(S) ==
  IF S = {} THEN <<>>
  ELSE LET m == CHOOSE x \in S : \A y \in S \ {x} : StrLess(x, y)
       IN <<m>> \o SortStrs(S \ {m})

\* the non-empty pieces of s between occurrences of the delimiter c (strtok)
RECURSIVE Tokens(_, _)
Tokens(s, c) ==
  IF s = <<>> THEN <<>>
  ELSE IF Head(s) = c THEN Tokens(Tail(s), c)
  ELSE LET n == CHOOSE k \in 1..Len(s) :
                   /\ \A i \in 1..k : s[i] # c
                   /\ (k = Len(s) \/ s[k + 1] = c)
       IN <<SubSeq(s, 1, n)>> \o Tokens(From(s, n), c)

----------------------------------------------------------------------------
(* The host file system: canonical path -> node.  The path <<>> is "/".    *)
(* A node is [dir, data, mtime, attr]; attr holds the FAT attribute bits   *)
(* of a file on a FAT mount.                                               *)

Parent(p) == IF p = <<>> THEN <<>> ELSE SubSeq(p, 1, Len(p) - 1)

IsDir(fs, p) == p \in DOMAIN fs /\ fs[p].dir

NameDot == <<DOT>>

NameDotDot == <<DOT, DOT>>

\* the kernel's path walk from the existing directory cur: every component
\* but the last must be a directory; the last one need not exist
RECURSIVE WalkFrom(_, _, _)
WalkFrom(fs, cur, comps) ==
  IF comps = <<>> THEN [ok |-> TRUE, path |-> cur]
  ELSE LET c == Head(comps)
           next == IF c = NameDot THEN cur
                   ELSE IF c = NameDotDot THEN Parent(cur)
                   ELSE Append(cur, c)
       IN IF Tail(comps) = <<>> THEN [ok |-> TRUE, path |-> next]
          ELSE IF IsDir(fs, next) THEN WalkFrom(fs, next, Tail(comps))
          ELSE [ok |-> FALSE, path |-> <<>>]

\* resolution of the absolute path string p
Namei(fs, p) ==
  IF p = <<>> \/ Head(p) # SLASH THEN [ok |-> FALSE, path |-> <<>>]
  ELSE WalkFrom(fs, <<>>, Tokens(p, SLASH))

\* the last component of p names the directory itself or its parent
EndsInDots(p) ==
  LET t == Tokens(p, SLASH)
  IN t # <<>> /\ t[Len(t)] \in {NameDot, NameDotDot}

\* stat(p) succeeds
Exists(fs, p) ==
  LET n == Namei(fs, p)
  IN /\ n.ok
     /\ n.path \in DOMAIN fs
     /\ (p[Len(p)] = SLASH => fs[n.path].dir)

\* the node stat(p) describes
NodeOf(fs, p) == fs[Namei(fs, p).path]

\* the names of the entries of directory d
Children(fs, d) ==
  {q[Len(q)] : q \in {r \in DOMAIN fs : Len(r) = Len(d) + 1 /\ Parent(r) = d}}

\* opendir/readdir of the directory at canonical path d: ".", "..", then the
\* entries in lexicographic order; d_type says whether the entry is a directory
ReadDir(fs, d) ==
  LET names == SortStrs(Children(fs, d))
  IN <<[name |-> NameDot, dir |-> TRUE], [name |-> NameDotDot, dir |-> TRUE]>>
     \o [i \in 1..Len(names) |->
           [name |-> names[i], dir |-> fs[Append(d, names[i])].dir]]

\* opendir(p) succeeds
CanOpenDir(fs, p) == Exists(fs, p) /\ NodeOf(fs, p).dir

Touch(fs, d, now) == [fs EXCEPT ![d].mtime = now]

ZeroFill(n) == [i \in 1..n |-> 0]

\* fopen(p, "wb") + fclose: creates or truncates the file
FsCreate(fs, p, now) ==
  LET n == Namei(fs, p)
  IN IF ~n.ok \/ IsDir(fs, n.path) \/ ~IsDir(fs, Parent(n.path))
     THEN [ok |-> FALSE, fs |-> fs]
     ELSE [ok |-> TRUE,
           fs |-> (n.path :> [dir |-> FALSE, data |-> <<>>, mtime |-> now,
                               attr |-> 32])
                  @@ (IF n.path \in DOMAIN fs THEN fs
                      ELSE Touch(fs, Parent(n.path), now))]

\* truncate(p, off)
FsTruncate(fs, p, off, now) ==
  IF ~Exists(fs, p) \/ NodeOf(fs, p).dir THEN [ok |-> FALSE, fs |-> fs]
  ELSE LET q == Namei(fs, p).path
           d == fs[q].data
           nd == IF off <= Len(d) THEN Take(d, off)
                 ELSE d \o ZeroFill(off - Len(d))
       IN [ok |-> TRUE, fs |-> [fs EXCEPT ![q].data = nd, ![q].mtime = now]]

\* fopen(p, "r+b"), fseek(off), fwrite(bytes): the count written, -1 on failure
FsWrite(fs, p, off, bytes, now) ==
  IF ~Exists(fs, p) \/ NodeOf(fs, p).dir THEN [res |-> -1, fs |-> fs]
  ELSE LET q == Namei(fs, p).path
           d == fs[q].data
           pre == IF off <= Len(d) THEN Take(d, off)
                  ELSE d \o ZeroFill(off - Len(d))
           nd == pre \o bytes \o From(d, off + Len(bytes))
       IN [res |-> Len(bytes),
           fs |-> [fs EXCEPT ![q].data = nd, ![q].mtime = now]]

\* fopen(p, "rb"), fseek(off), fread(len): the bytes read, ok = FALSE on failure
\* (a directory opens for reading, and reading it yields nothing)
FsRead(fs, p, off, len) ==
  IF ~Exists(fs, p) THEN [ok |-> FALSE, data |-> <<>>]
  ELSE IF NodeOf(fs, p).dir THEN [ok |-> TRUE, data |-> <<>>]
  ELSE [ok |-> TRUE, data |-> Take(From(NodeOf(fs, p).data, off), len)]

Without(fs, gone) == [q \in DOMAIN fs \ gone |-> fs[q]]

\* unlink(p)
FsUnlink(fs, p, now) ==
  IF ~Exists(fs, p) \/ NodeOf(fs, p).dir THEN [ok |-> FALSE, fs |-> fs]
  ELSE LET q == Namei(fs, p).path
       IN [ok |-> TRUE, fs |-> Touch(Without(fs, {q}), Parent(q), now)]

\* mkdir(p, 0)
FsMkdir(fs, p, now) ==
  LET n == Namei(fs, p)
  IN IF ~n.ok \/ n.path \in DOMAIN fs \/ ~IsDir(fs, Parent(n.path))
     THEN [ok |-> FALSE, fs |-> fs]
     ELSE [ok |-> TRUE,
           fs |-> (n.path :> [dir |-> TRUE, data |-> <<>>, mtime |-> now,
                               attr |-> 16])
                  @@ Touch(fs, Parent(n.path), now)]

\* rmdir(p)
FsRmdir(fs, p, now) ==
  IF \/ ~Exists(fs, p)
     \/ ~NodeOf(fs, p).dir
     \/ EndsInDots(p)
     \/ Namei(fs, p).path = <<>>
     \/ Children(fs, Namei(fs, p).path) # {}
  THEN [ok |-> FALSE, fs |-> fs]
  ELSE LET q == Namei(fs, p).path
       IN [ok |-> TRUE, fs |-> Touch(Without(fs, {q}), Parent(q), now)]

IsPrefix(a, b) == Len(a) <= Len(b) /\ SubSeq(b, 1, Len(a)) = a

\* rename(p1, p2)
FsRename(fs, p1, p2, now) ==
  LET a == Namei(fs, p1)
      b == Namei(fs, p2)
  IN IF \/ ~Exists(fs, p1) \/ EndsInDots(p1) \/ a.path = <<>>
        \/ ~b.ok \/ EndsInDots(p2) \/ b.path = <<>>
        \/ ~IsDir(fs, Parent(b.path))
        \/ (fs[a.path].dir /\ a.path # b.path /\ IsPrefix(a.path, b.path))
        \/ (b.path \in DOMAIN fs /\ fs[b.path].dir # fs[a.path].dir)
        \/ (IsDir(fs, b.path) /\ Children(fs, b.path) # {})
     THEN [ok |-> FALSE, fs |-> fs]
     ELSE IF a.path = b.path THEN [ok |-> TRUE, fs |-> fs]
     ELSE LET moved == {q \in DOMAIN fs : IsPrefix(a.path, q)}
              rest == Without(fs, moved \cup {b.path})
              dest(q) == b.path \o SubSeq(q, Len(a.path) + 1, Len(q))
              new == [r \in {dest(q) : q \in moved} |->
                        fs[a.path \o SubSeq(r, Len(b.path) + 1, Len(r))]]
          IN [ok |-> TRUE,
              fs |-> Touch(Touch(new @@ rest, Parent(a.path), now),
                           Parent(b.path), now)]

----------------------------------------------------------------------------
(* Bounds of the model                                                     *)

\* slots of the handle table that getitemss() scans (0xffff in the program);
\* the slot with this index is the one it never allocates (fsdb[0xffff])
MaxSlots == 2

\* frames the server receives
MaxFrames == 3

\* times the clock is advanced
MaxTicks == 2

\* server processes started on one host
MaxInstances == 3

----------------------------------------------------------------------------
(* fs.c                                                                    *)

\* 3600 s: a handle idle for longer is dropped by getitemss()
IdleSecs == 3600

\* the id getitemss() returns on failure (0xffffu)
INVALID == MaxSlots

\* the null char pointer (no string holds a NUL byte)
NULL == <<0>>

\* DOS attribute bits
FAT_VOL == 8

FAT_DIR == 16

\* the flags of findfile(): FFILE_ISROOT and FFILE_ISFAT, one field each
Flags(isroot, isfat) == [isroot |-> isroot, isfat |-> isfat]

\* a cleared fsdb slot (memset 0)
EmptySlot == [name |-> NULL, lastused |-> 0, dirlist |-> <<>>]

\* a variant of the loop of getitemss() that does not look for f in the table
RECURSIVE getitemssLoopNoMatch(_, _, _, _, _, _)
getitemssLoopNoMatch(db, f, now, i, firstfree, oldest) ==
  IF i >= MaxSlots
  THEN LET ff == IF firstfree = INVALID THEN oldest ELSE firstfree
       IN [id |-> ff,
           db |-> [db EXCEPT ![ff] = [name |-> f, lastused |-> now,
                                      dirlist |-> <<>>]]]
  ELSE LET db1 == IF db[i].name # NULL /\ (now - db[i].lastused) > IdleSecs
                  THEN [db EXCEPT ![i] = EmptySlot]
                  ELSE db
           ff == IF firstfree = INVALID /\ db1[i].name = NULL THEN i
                 ELSE firstfree
           old == IF ~(firstfree = INVALID /\ db1[i].name = NULL)
                     /\ db1[oldest].lastused > db1[i].lastused
                  THEN i ELSE oldest
       IN getitemssLoopNoMatch(db1, f, now, i + 1, ff, old)

\* a variant of the loop of getitemss() that keeps the slot used last as the
\* one to replace
RECURSIVE getitemssLoopNewest(_, _, _, _, _, _)
getitemssLoopNewest(db, f, now, i, firstfree, oldest) ==
  IF i >= MaxSlots
  THEN LET ff == IF firstfree = INVALID THEN oldest ELSE firstfree
       IN [id |-> ff,
           db |-> [db EXCEPT ![ff] = [name |-> f, lastused |-> now,
                                      dirlist |-> <<>>]]]
  ELSE IF db[i].name # NULL /\ db[i].name = f
  THEN [id |-> i, db |-> [db EXCEPT ![i].lastused = now]]
  ELSE LET db1 == IF db[i].name # NULL /\ (now - db[i].lastused) > IdleSecs
                  THEN [db EXCEPT ![i] = EmptySlot]
                  ELSE db
           ff == IF firstfree = INVALID /\ db1[i].name = NULL THEN i
                 ELSE firstfree
           old == IF ~(firstfree = INVALID /\ db1[i].name = NULL)
                     /\ db1[oldest].lastused < db1[i].lastused
                  THEN i ELSE oldest
       IN getitemssLoopNewest(db1, f, now, i + 1, ff, old)

\* getitemss(): the loop over the slots i..MaxSlots-1 with its running db,
\* firstfree and oldest, then the registration of f
RECURSIVE getitemssLoop(_, _, _, _, _, _)
getitemssLoop(db, f, now, i, firstfree, oldest) ==
  IF i >= MaxSlots
  THEN LET ff == IF firstfree = INVALID THEN oldest ELSE firstfree
       IN [id |-> ff,
           db |-> [db EXCEPT ![ff] = [name |-> f, lastused |-> now,
                                      dirlist |-> <<>>]]]
  ELSE IF db[i].name # NULL /\ db[i].name = f
  THEN [id |-> i, db |-> [db EXCEPT ![i].lastused = now]]
  ELSE LET db1 == IF db[i].name # NULL /\ (now - db[i].lastused) > IdleSecs
                  THEN [db EXCEPT ![i] = EmptySlot]
                  ELSE db
           ff == IF firstfree = INVALID /\ db1[i].name = NULL THEN i
                 ELSE firstfree
           old == IF ~(firstfree = INVALID /\ db1[i].name = NULL)
                     /\ db1[oldest].lastused > db1[i].lastused
                  THEN i ELSE oldest
       IN getitemssLoop(db1, f, now, i + 1, ff, old)

\* returns the "start sector" (handle id) of the item f, and the new table
getitemss(db, f, now) == getitemssLoop(db, f, now, 0, INVALID, 0)

sstoitem(db, ss) == db[ss].name

upchar(c) == IF c >= Ord("a") /\ c <= Ord("z") THEN c - (Ord("a") - Ord("A")) ELSE c

Spaces11 == [i \in 1..11 |-> SPACE]

\* filename2fcb(): the count of leading dots copied by the '.' and '..' loop
fcbLeadDots(s) ==
  CHOOSE n \in 0..8 : /\ \A k \in 0..(n - 1) : At(s, k) = DOT
                      /\ (n = 8 \/ At(s, n) # DOT)

RECURSIVE fcbSkipSpaces(_, _)
fcbSkipSpaces(s, j) == IF At(s, j) = SPACE THEN fcbSkipSpaces(s, j + 1) ELSE j

\* filename2fcb(): the "fill in the filename" loop
RECURSIVE fcbNameLoop(_, _, _, _)
fcbNameLoop(s, i, j, d) ==
  IF i >= 8 \/ At(s, j) = DOT \/ At(s, j) = 0 THEN [i |-> i, d |-> d]
  ELSE LET k == fcbSkipSpaces(s, j)
       IN fcbNameLoop(s, i + 1, k + 1, [d EXCEPT ![i + 1] = upchar(At(s, k))])

\* filename2fcb(): the "fill in the extension" loop over e, the text after the dot
RECURSIVE fcbExtLoop(_, _, _)
fcbExtLoop(e, j, d) ==
  IF j >= 3 \/ At(e, j) = DOT \/ At(e, j) = 0 \/ At(e, j) = SPACE THEN d
  ELSE fcbExtLoop(e, j + 1, [d EXCEPT ![9 + j] = upchar(At(e, j))])

\* the 0-based index of the first c in s, Len(s) if there is none
IndexOf(s, c) ==
  CHOOSE n \in 0..Len(s) : /\ \A k \in 0..(n - 1) : At(s, k) # c
                           /\ (n = Len(s) \/ At(s, n) = c)

\* translates a filename string into a fcb-style block ("FILE0001TXT")
filename2fcb(s) ==
  Let(fcbLeadDots(s), LAMBDA n :
  Let(fcbNameLoop(s, n, n, [i \in 1..11 |-> IF i <= n THEN DOT ELSE SPACE]),
      LAMBDA nm :
  Let(From(s, nm.i), LAMBDA rest :
  Let(IndexOf(rest, DOT), LAMBDA dot :
    IF dot >= Len(rest) THEN nm.d
    ELSE fcbExtLoop(From(rest, dot + 1), 0, nm.d)))))

\* the first second of the modelled day, local time (2026-01-01 00:00:00)
T0 == 20454 * 86400

\* localtime() of a time of the modelled day
LocalTime(t) ==
  LET secs == t - T0
  IN [tm_year |-> 126, tm_mon |-> 0, tm_mday |-> 1,
      tm_hour |-> (secs \div 3600) % 24, tm_min |-> (secs \div 60) % 60,
      tm_sec |-> secs % 60]

\* converts a time_t into a DWORD with DOS (FAT-style) timestamp bits
time2dos(t) ==
  LET lt == LocalTime(t)
  IN (((((lt.tm_year - 80) * 16 + (lt.tm_mon + 1)) * 32 + lt.tm_mday) * 32
       + lt.tm_hour) * 64 + lt.tm_min) * 32 + (lt.tm_sec \div 2)

\* match FCB-style filename to a FCB-style mask: 0 on a match, -1 otherwise
matchfile2mask(msk, fil) ==
  IF \A i \in 0..10 : upchar(At(fil, i)) = upchar(At(msk, i)) \/ At(msk, i) = QMARK
  THEN 0 ELSE -1

\* struct fileprops, zeroed
ZeroProps == [fcbname |-> ZeroFill(11), fattr |-> 0, fsize |-> 0, ftime |-> 0]

\* getitemattr(): the file part of path i
attrFname(i) ==
  LET cuts == {k \in 0..(Len(i) - 1) :
                 At(i, k) \in {SLASH, BSLASH} /\ At(i, k + 1) # 0}
  IN IF cuts = {} THEN i
     ELSE From(i, (CHOOSE k \in cuts : \A m \in cuts : m <= k) + 1)

\* provides DOS-like attributes for item i: the attribute byte returned (0xff
\* on error) and *fprops afterwards, fp0 being what it held before
getitemattr(fs, i, fp0, fatflag) ==
  IF ~Exists(fs, i) THEN [attr |-> 255, fprops |-> fp0]
  ELSE Let(NodeOf(fs, i), LAMBDA nd :
       Let([fcbname |-> filename2fcb(attrFname(i)), fattr |-> 0,
            fsize |-> IF nd.dir THEN 0 ELSE Len(nd.data),
            ftime |-> time2dos(nd.mtime)],
           LAMBDA fp :
         IF nd.dir THEN [attr |-> 16, fprops |-> [fp EXCEPT !.fattr = 16]]
         ELSE IF fatflag = 0 THEN [attr |-> 32, fprops |-> fp]
         ELSE [attr |-> nd.attr, fprops |-> [fp EXCEPT !.fattr = nd.attr]]))

\* generates the directory listing of the item called name: the count of
\* entries (-1 on error) and the listing
gendirlist(fs, name, fatflag) ==
  IF name = NULL \/ ~CanOpenDir(fs, name) THEN [res |-> -1, dirlist |-> <<>>]
  ELSE Let(ReadDir(fs, Namei(fs, name).path), LAMBDA ents :
         [res |-> Len(ents),
          dirlist |-> [k \in 1..Len(ents) |->
                         getitemattr(fs, name \o <<SLASH>> \o ents[k].name,
                                     ZeroProps, fatflag).fprops]])

\* findfile(): the entry at position n of the listing passes the filters
findfileAccepts(e, fcbtmpl, attr, flags) ==
  /\ ~(At(e.fcbname, 0) = DOT /\ flags.isroot)
  /\ matchfile2mask(fcbtmpl, e.fcbname) = 0
  /\ IF attr = 8 THEN (e.fattr \div 8) % 2 = 1
     ELSE \* (attr | (fattr & 0x16)) == attr: no bit of 0x16 set in fattr is clear in attr
          \A b \in {2, 4, 16} : (e.fattr \div b) % 2 = 1 => (attr \div b) % 2 = 1

\* searches for a file matching the FCB-style template: rc (0 found, -1 not),
\* the new *nth, the properties copied to *f, and the slot's listing afterwards
findfile(fs, db, dss, fcbtmpl, attr, nth, flags) ==
  Let(IF nth = 0 \/ db[dss].dirlist = <<>>
      THEN gendirlist(fs, db[dss].name, IF flags.isfat THEN 1 ELSE 0)
      ELSE [res |-> 0, dirlist |-> db[dss].dirlist],
      LAMBDA gen :
        Let({n \in 1..Len(gen.dirlist) :
               n > nth /\ findfileAccepts(gen.dirlist[n], fcbtmpl, attr, flags)},
            LAMBDA hits :
              Let([db EXCEPT ![dss].dirlist = gen.dirlist],
                  LAMBDA db1 :
                    IF gen.res < 0 \/ hits = {}
                    THEN [rc |-> -1, nth |-> nth, f |-> ZeroProps, db |-> db1]
                    ELSE Let(CHOOSE k \in hits : \A m \in hits : k <= m,
                             LAMBDA n : [rc |-> 0, nth |-> n,
                                         f |-> gen.dirlist[n], db |-> db1]))))

\* shorttolong(): the walk over the remaining tokens, dst being the host path
\* built so far
\* a variant of the walk that takes the first entry of the directory, whatever
\* its name
RECURSIVE shorttolongWalkAny(_, _, _)
shorttolongWalkAny(fs, toks, dst) ==
  IF toks = <<>> THEN [rc |-> 0, dst |-> dst]
  ELSE IF ~CanOpenDir(fs, dst) THEN [rc |-> -1, dst |-> dst]
  ELSE Let(ReadDir(fs, Namei(fs, dst).path), LAMBDA ents :
       Let({k \in 1..Len(ents) :
              /\ ents[k].name \notin {NameDot, NameDotDot}
              /\ (Tail(toks) # <<>> => ents[k].dir)},
           LAMBDA hits :
         IF hits = {} THEN [rc |-> -1, dst |-> dst \o Head(toks)]
         ELSE shorttolongWalkAny(
                fs, Tail(toks),
                dst \o ents[CHOOSE k \in hits : \A m \in hits : k <= m].name
                    \o (IF Tail(toks) # <<>> THEN <<SLASH>> ELSE <<>>))))

RECURSIVE shorttolongWalk(_, _, _)
shorttolongWalk(fs, toks, dst) ==
  IF toks = <<>> THEN [rc |-> 0, dst |-> dst]
  ELSE IF ~CanOpenDir(fs, dst) THEN [rc |-> -1, dst |-> dst]
  ELSE Let(CStr(filename2fcb(Head(toks))), LAMBDA to_find :
       Let(ReadDir(fs, Namei(fs, dst).path), LAMBDA ents :
       Let({k \in 1..Len(ents) :
              /\ ents[k].name \notin {NameDot, NameDotDot}
              /\ CStr(filename2fcb(ents[k].name)) = to_find
              /\ (Tail(toks) # <<>> => ents[k].dir)},
           LAMBDA hits :
         IF hits = {} THEN [rc |-> -1, dst |-> dst \o Head(toks)]
         ELSE shorttolongWalk(
                fs, Tail(toks),
                dst \o ents[CHOOSE k \in hits : \A m \in hits : k <= m].name
                    \o (IF Tail(toks) # <<>> THEN <<SLASH>> ELSE <<>>)))))

\* translates a DOS 8.3 path (src, which starts with root) to the host path:
\* rc 0 and the host path, or rc -1 and what was written to dst up to there
shorttolong(fs, src, root) ==
  IF At(src, Len(root)) # SLASH THEN [rc |-> -1, dst |-> root \o <<SLASH>>]
  ELSE shorttolongWalk(fs, Tokens(From(src, Len(root) + 1), SLASH),
                       root \o <<SLASH>>)

\* remove all files matching the pattern: 1 (one file unlinked), 0 (pattern
\* processed), -1 (error), and the file system afterwards
RECURSIVE delfilesLoop(_, _, _, _, _)
delfilesLoop(fs, dir, ents, filfcb, now) ==
  IF ents = <<>> THEN fs
  ELSE delfilesLoop(
         IF ~Head(ents).dir
            /\ matchfile2mask(filfcb, filename2fcb(Head(ents).name)) = 0
         THEN FsUnlink(fs, dir \o <<SLASH>> \o Head(ents).name, now).fs
         ELSE fs,
         dir, Tail(ents), filfcb, now)

\* the offset of the last '/' of pattern, looked for from offset 1 on
delfilesOffset(pattern) ==
  Let({k \in 1..(Len(pattern) - 1) : At(pattern, k) = SLASH}, LAMBDA slashes :
    IF slashes = {} THEN 0 ELSE CHOOSE k \in slashes : \A m \in slashes : m <= k)

delfiles(fs, pattern, now) ==
  IF \A k \in 1..Len(pattern) : pattern[k] # QMARK
  THEN Let(FsUnlink(fs, pattern, now), LAMBDA u :
         [res |-> IF u.ok THEN 1 ELSE -1, fs |-> u.fs])
  ELSE Let(delfilesOffset(pattern), LAMBDA fileoffset :
       Let(Take(pattern, fileoffset), LAMBDA dir :
         IF ~CanOpenDir(fs, dir) THEN [res |-> -1, fs |-> fs]
         ELSE [res |-> 0,
               fs |-> delfilesLoop(fs, dir, ReadDir(fs, Namei(fs, dir).path),
                                   filename2fcb(From(pattern, fileoffset + 1)),
                                   now)]))

\* creates or truncates the file fn in directory d: 0 and *f, or -1
createfile(fs, d, fn, fp0, fatflag, now) ==
  Let(FsCreate(fs, d \o <<SLASH>> \o fn, now), LAMBDA c :
    IF ~c.ok THEN [res |-> -1, fs |-> fs, fprops |-> fp0]
    ELSE [res |-> 0, fs |-> c.fs,
          fprops |-> getitemattr(c.fs, d \o <<SLASH>> \o fn, fp0, fatflag).fprops])

\* reads len bytes from the file behind handle fss: ok = FALSE stands for -1
readfile(fs, db, fss, offset, len) ==
  IF db[fss].name = NULL THEN [ok |-> FALSE, data |-> <<>>]
  ELSE FsRead(fs, db[fss].name, offset, len)

\* writes buff to the file behind handle fss; an empty buff truncates or
\* extends the file to offset
writefile(fs, db, buff, fss, offset, now) ==
  IF db[fss].name = NULL THEN [res |-> -1, fs |-> fs]
  ELSE IF Len(buff) = 0
  THEN [res |-> 0, fs |-> FsTruncate(fs, db[fss].name, offset, now).fs]
  ELSE FsWrite(fs, db[fss].name, offset, buff, now)

\* returns the size of an open file, -1 on error
getfopsize(fs, db, fss) ==
  IF db[fss].name = NULL THEN -1
  ELSE Let(getitemattr(fs, db[fss].name, ZeroProps, 0), LAMBDA a :
         IF a.attr = 255 THEN -1 ELSE a.fprops.fsize)

----------------------------------------------------------------------------
(* ethersrv.c: constants, the drive table and the helpers of process()     *)

ETHERTYPE_DFS == 60917

PROTOVER == 2

ANSWCACHESZ == 16

\* sizeof(answcache[].frame)
FRAMESZ == 1520

AL_INSTALLCHK == 0

AL_RMDIR == 1

AL_MKDIR == 3

AL_CHDIR == 5

AL_CLSFIL == 6

AL_CMMTFIL == 7

AL_READFIL == 8

AL_WRITEFIL == 9

AL_LOCKFIL == 10

AL_UNLOCKFIL == 11

AL_DISKSPACE == 12

AL_SETATTR == 14

AL_GETATTR == 15

AL_RENAME == 17

AL_DELETE == 19

AL_OPEN == 22

AL_CREATE == 23

AL_FINDFIRST == 27

AL_FINDNEXT == 28

AL_SKFMEND == 33

AL_SPOPNFIL == 46

AL_UNKNOWN == 255

\* the MAC addresses: six bytes each
MacOf(n) == <<2, 0, 0, 0, 0, n>>

mymac == MacOf(1)

BcastMac == <<255, 255, 255, 255, 255, 255>>

ZeroMac == <<0, 0, 0, 0, 0, 0>>

\* the host directory served as drive C: (the one root path of the command line)
RootC == Str(<<"/", "r">>)

\* root[] of main(): entry 2 is C:
rootarray == [d \in 0..25 |-> IF d = 2 THEN RootC ELSE NULL]

\* drivesfat[]: the served directory is not on a FAT file system
drivesfat == [d \in 0..25 |-> 0]

\* statvfs() of the drive: total and free bytes as 32 KiB units (hi) plus
\* bytes (lo): a 10 GiB disk with 4 GiB free
diskinfo(path) ==
  [total |-> [hi |-> 327680, lo |-> 0], free |-> [hi |-> 131072, lo |-> 0]]

tolower(c) == IF c >= Ord("A") /\ c <= Ord("Z") THEN c + (Ord("a") - Ord("A")) ELSE c

\* turns a string into all-lower-case characters (n < 0: the whole string)
lostring(str) == [i \in 1..Len(str) |-> tolower(str[i])]

\* replaces all rep chars in string str by repby
charreplace(str, rep, repby) ==
  [i \in 1..Len(str) |-> IF str[i] = rep THEN repby ELSE str[i]]

\* a variant of findcacheentry() that does not look for the client's entry
findcacheentryNoMatch(cache, clientmac) ==
  LET olds == {i \in 0..(ANSWCACHESZ - 1) :
                 /\ \A j \in 0..(ANSWCACHESZ - 1) :
                      cache[i].timestamp <= cache[j].timestamp
                 /\ \A j \in 0..(i - 1) : cache[j].timestamp > cache[i].timestamp}
  IN CHOOSE i \in olds : TRUE

\* a variant of findcacheentry() that falls back on the first entry
findcacheentryFirst(cache, clientmac) ==
  LET hits == {i \in 0..(ANSWCACHESZ - 1) : cache[i].frame.dst = clientmac}
  IN IF hits # {} THEN CHOOSE i \in hits : \A j \in hits : i <= j
     ELSE 0

\* the index of the cache entry related to the client: the first entry whose
\* frame starts with clientmac, else the oldest entry
findcacheentry(cache, clientmac) ==
  LET hits == {i \in 0..(ANSWCACHESZ - 1) : cache[i].frame.dst = clientmac}
      olds == {i \in 0..(ANSWCACHESZ - 1) :
                 /\ \A j \in 0..(ANSWCACHESZ - 1) :
                      cache[i].timestamp <= cache[j].timestamp
                 /\ \A j \in 0..(i - 1) : cache[j].timestamp > cache[i].timestamp}
  IN IF hits # {} THEN CHOOSE i \in hits : \A j \in hits : i <= j
     ELSE CHOOSE i \in olds : TRUE

\* checks whether dir belongs to the root directory: 1 if so, 0 otherwise
isroot(root, dir) ==
  LET skip == Min(Len(root), Len(dir))
      rest == From(dir, skip)
      lead == CHOOSE n \in 0..Len(rest) :
                /\ \A k \in 0..(n - 1) : At(rest, k) = SLASH
                /\ At(rest, n) # SLASH
  IN IF \E k \in lead..(Len(rest) - 1) : At(rest, k) = SLASH THEN 0 ELSE 1

\* explodes a full X:\DIR\FILE????.??? search path (the sourcelen bytes of
\* source) into directory and mask.  The copy of the mask has length
\* sourcelen - (lastbackslash + 1): when that is negative the memcpy() runs
\* off the buffers (ok = FALSE)
explodepath(source0, sourcelen0) ==
  Let(sourcelen0 >= 2 /\ At(source0, 1) = COLON, LAMBDA drv :
  Let(IF drv THEN From(source0, 2) ELSE source0, LAMBDA source :
  Let(IF drv THEN sourcelen0 - 2 ELSE sourcelen0, LAMBDA sourcelen :
  Let({i \in 0..(sourcelen - 1) : At(source, i) \in {BSLASH, SLASH}},
      LAMBDA seps :
  Let(IF seps = {} THEN 0 ELSE CHOOSE i \in seps : \A j \in seps : j <= i,
      LAMBDA lastbackslash :
    IF sourcelen - (lastbackslash + 1) < 0
    THEN [ok |-> FALSE, dir |-> <<>>, file |-> <<>>]
    ELSE [ok |-> TRUE,
          dir |-> CStr(Take(source, lastbackslash + 1)),
          file |-> CStr(Take(From(source, lastbackslash + 1),
                             sourcelen - (lastbackslash + 1)))])))))

\* copies everything after the last slash of src into dst
copy_after_last_slash(dst, src) ==
  LET sl == {i \in 0..(Len(src) - 1) : At(src, i) = SLASH}
  IN IF sl = {} THEN dst
     ELSE From(src, (CHOOSE i \in sl : \A j \in sl : j <= i) + 1)

\* compute the BSD checksum of the bytes b: the loop from res on
RECURSIVE bsdsumFrom(_, _)
bsdsumFrom(res, b) ==
  IF b = <<>> THEN res
  ELSE bsdsumFrom((((res \div 2) + (res % 2) * 32768) + Head(b)) % 65536, Tail(b))

bsdsum(b) == bsdsumFrom(0, b)

\* sprintf(buf, "%s/", root), the payload text copied behind it, lostring()
\* on that part and charreplace() of '\' by '/' on the whole: the DOS-form
\* path that process() hands to shorttolong()
dospath(root, text) ==
  charreplace(root \o <<SLASH>> \o lostring(CStr(text)), BSLASH, SLASH)

\* fs.c: the thin wrappers of the system calls (the server runs as root, so
\* the mode 0 of mkdir() does not get in its way)
makedir(fs, d, now) == FsMkdir(fs, d, now)

remdir(fs, d, now) == FsRmdir(fs, d, now)

\* chdir(d): 0 on success, -1 otherwise
changedir(fs, d) == IF CanOpenDir(fs, d) THEN 0 ELSE -1

renfile(fs, fn1, fn2, now) == FsRename(fs, fn1, fn2, now)

\* set attributes fattr on file i (FAT ioctl): res and the file system
setitemattr(fs, i, fattr) ==
  IF ~Exists(fs, i) THEN [res |-> -1, fs |-> fs]
  ELSE [res |-> 0, fs |-> [fs EXCEPT ![Namei(fs, i).path].attr = fattr]]

----------------------------------------------------------------------------
(* ethersrv.c: process().  A frame is the record of its header fields     *)
(* [dst, src, etype, pad, elen, cksum, proto, seq, b58, b59] (bytes 0..59) *)
(* and its payload (bytes 60..).  A run of process() past the cache check  *)
(* works on the context c: hdr, the answer frame after the header copy and *)
(* the MAC swap; rb, the receive buffer from byte 60 on; n, reqbufflen     *)
(* less 60; drv, root; db and fs, the handle table and the host file       *)
(* system; now, time(NULL).  It yields the set of its possible outcomes    *)
(* [rc, frame, db, fs, crashed]: rc is the value returned, frame the       *)
(* answer frame afterwards, crashed that the process died.                 *)

\* the slot of fsdb[] a 16-bit id of a request indexes: the ids beyond the
\* slots getitemss() scans here behave like fsdb[0xffff]
SlotOf(id) == IF id < MaxSlots THEN id ELSE INVALID

\* return(reslen + 60) with *ax = ax and the payload written behind the header
ReplyOf(c, ax, payload, db, fs) ==
  [rc |-> 60 + Len(payload),
   frame |-> [c.hdr EXCEPT !.b58 = ax % 256, !.b59 = ax \div 256,
                           !.payload = payload],
   db |-> db, fs |-> fs, crashed |-> FALSE]

\* return(rc) of an ignored query, after *ax = 0
IgnoreOf(c, rc) ==
  [rc |-> rc, frame |-> [c.hdr EXCEPT !.b58 = 0, !.b59 = 0],
   db |-> c.db, fs |-> c.fs, crashed |-> FALSE]

\* the process dies (SIGSEGV)
CrashOf(c) ==
  [rc |-> -1, frame |-> c.hdr, db |-> c.db, fs |-> c.fs, crashed |-> TRUE]

\* the 24 bytes of a FINDFIRST/FINDNEXT answer
FindPayload(f, dirss, fpos) ==
  <<f.fattr>> \o f.fcbname \o Le32(f.ftime) \o Le32(f.fsize)
  \o Le16(dirss) \o Le16(fpos)

\* what follows a findfile() call r: AX=12h when it failed; when it found an
\* entry, its memcpy() of sizeof(struct sdirlist) bytes into the caller's
\* struct fileprops has run past that object, so the answer is built or the
\* process dies
FindOutcomes(c, r, dirss) ==
  IF r.rc # 0 THEN {ReplyOf(c, 18, <<>>, r.db, c.fs)}
  ELSE {ReplyOf(c, 0, FindPayload(r.f, dirss, r.nth), r.db, c.fs), CrashOf(c)}

\* bytes to 32 KiB clusters, capped at just under 2 GiB
\* a variant of Clusters without the limit: the low 16 bits of the count
ClustersNoClamp(sp) == sp.hi % 65536

Clusters(sp) ==
  IF sp.hi >= 65536 \/ (sp.hi = 65535 /\ sp.lo >= 32767) THEN 65535 ELSE sp.hi

\* AX and the answer of DISKSPACE for a drive of total bytes with free free
DiskspaceAnswer(total, free) ==
  [ax |-> 1,
   payload |-> Le16(Clusters(total)) \o Le16(32768) \o Le16(Clusters(free))]

DoDiskspace(c) ==
  Let(diskinfo(c.root), LAMBDA di :
  Let(DiskspaceAnswer(di.total, di.free), LAMBDA d :
    {ReplyOf(c, d.ax, d.payload, c.db, c.fs)}))

DoReadfil(c) ==
  Let(readfile(c.fs, c.db, SlotOf(Rd16(c.rb, 4)), Rd32(c.rb, 0), Rd16(c.rb, 6)),
      LAMBDA r :
    IF ~r.ok THEN {ReplyOf(c, 5, <<>>, c.db, c.fs)}
    ELSE IF 60 + Len(r.data) > FRAMESZ
    THEN \* fread() ran over the end of the answer frame: the process dies,
         \* or goes on and answers with all the bytes read
         {CrashOf(c), ReplyOf(c, 0, r.data, c.db, c.fs)}
    ELSE {ReplyOf(c, 0, r.data, c.db, c.fs)})

DoWritefil(c) ==
  Let(writefile(c.fs, c.db, Take(From(c.rb, 6), c.n - 6),
                SlotOf(Rd16(c.rb, 4)), Rd32(c.rb, 0), c.now),
      LAMBDA w :
    IF w.res < 0 THEN {ReplyOf(c, 5, <<>>, c.db, c.fs)}
    ELSE {ReplyOf(c, 0, Le16(w.res), c.db, w.fs)})

DoFindfirst(c) ==
  Let(explodepath(From(c.rb, 1), c.n - 1), LAMBDA ex :
    IF ~ex.ok THEN {CrashOf(c)}
    ELSE
  Let(dospath(c.root, ex.dir), LAMBDA directory :
  Let(getitemss(c.db, shorttolong(c.fs, directory, c.root).dst, c.now),
      LAMBDA g :
    FindOutcomes(c,
                 findfile(c.fs, g.db, g.id, filename2fcb(lostring(ex.file)),
                          At(c.rb, 0), 0,
                          Flags(isroot(c.root, directory) # 0, c.fat # 0)),
                 g.id))))

\* the values isroot(root, name) can yield: reading through the null pointer
\* yields either, if the process survives it
RootFlags(root, name) ==
  IF name = NULL THEN {TRUE, FALSE} ELSE {isroot(root, name) # 0}

DoFindnext(c) ==
  Let(Rd16(c.rb, 0), LAMBDA dirss :
  Let(sstoitem(c.db, SlotOf(dirss)), LAMBDA name :
    (IF name = NULL THEN {CrashOf(c)} ELSE {})
    \cup UNION {FindOutcomes(c,
                             findfile(c.fs, c.db, SlotOf(dirss),
                                      [i \in 1..11 |-> At(c.rb, 4 + i)],
                                      At(c.rb, 4), Rd16(c.rb, 2),
                                      Flags(isr, c.fat # 0)),
                             dirss) : isr \in RootFlags(c.root, name)}))

DoMkdirRmdir(c, query) ==
  Let(shorttolong(c.fs, dospath(c.root, Take(c.rb, c.n)), c.root).dst,
      LAMBDA host_directory :
  Let(IF query = AL_MKDIR THEN makedir(c.fs, host_directory, c.now)
      ELSE remdir(c.fs, host_directory, c.now),
      LAMBDA r :
    {ReplyOf(c, IF r.ok THEN 0 ELSE 29, <<>>, c.db, r.fs)}))

DoChdir(c) ==
  Let(shorttolong(c.fs, dospath(c.root, Take(c.rb, c.n)), c.root), LAMBDA sl :
    IF sl.rc # 0 \/ changedir(c.fs, sl.dst) # 0
    THEN {ReplyOf(c, 3, <<>>, c.db, c.fs)}
    ELSE {ReplyOf(c, 0, <<>>, c.db, c.fs)})

DoSetattr(c) ==
  Let(shorttolong(c.fs, dospath(c.root, Take(From(c.rb, 1), c.n - 1)), c.root),
      LAMBDA sl :
    IF sl.rc # 0 THEN {ReplyOf(c, 2, <<>>, c.db, c.fs)}
    ELSE IF c.fat # 0
    THEN Let(setitemattr(c.fs, sl.dst, At(c.rb, 0)), LAMBDA sa :
           {ReplyOf(c, IF sa.res # 0 THEN 2 ELSE 0, <<>>, c.db, sa.fs)})
    ELSE {ReplyOf(c, 0, <<>>, c.db, c.fs)})

DoGetattr(c) ==
  Let(shorttolong(c.fs, dospath(c.root, Take(c.rb, c.n)), c.root), LAMBDA sl :
  Let(getitemattr(c.fs, sl.dst, ZeroProps, c.fat), LAMBDA ga :
    IF sl.rc # 0 \/ ga.attr = 255 THEN {ReplyOf(c, 2, <<>>, c.db, c.fs)}
    ELSE {ReplyOf(c, 0, Le32(ga.fprops.ftime) \o Le32(ga.fprops.fsize)
                        \o <<ga.fprops.fattr>>, c.db, c.fs)}))

DoRename(c) ==
  Let(At(c.rb, 0), LAMBDA fn1len :
    IF ~(c.n > fn1len) THEN {ReplyOf(c, 2, <<>>, c.db, c.fs)}
    ELSE
  Let(dospath(c.root, Take(From(c.rb, 1 + fn1len), c.n - (1 + fn1len))),
      LAMBDA fn2 :
  Let(shorttolong(c.fs, dospath(c.root, Take(From(c.rb, 1), fn1len)), c.root),
      LAMBDA sl :
    IF sl.rc # 0 THEN {ReplyOf(c, 0, <<>>, c.db, c.fs)}
    ELSE IF getitemattr(c.fs, fn2, ZeroProps, 0).attr # 255
    THEN {ReplyOf(c, 5, <<>>, c.db, c.fs)}
    ELSE Let(renfile(c.fs, sl.dst, fn2, c.now), LAMBDA rn :
           {ReplyOf(c, IF rn.ok THEN 0 ELSE 5, <<>>, c.db, rn.fs)}))))

DoDelete(c) ==
  Let(shorttolong(c.fs, dospath(c.root, Take(c.rb, c.n)), c.root), LAMBDA sl :
    IF sl.rc # 0 THEN {ReplyOf(c, 2, <<>>, c.db, c.fs)}
    ELSE IF getitemattr(c.fs, sl.dst, ZeroProps, c.fat).attr % 2 = 1
    THEN {ReplyOf(c, 5, <<>>, c.db, c.fs)}
    ELSE Let(delfiles(c.fs, sl.dst, c.now), LAMBDA d :
           {ReplyOf(c, IF d.res < 0 THEN 2 ELSE 0, <<>>, c.db, d.fs)}))

\* OPEN / CREATE / SPOPNFIL, what to do with the file whose attributes are
\* attr (0xff: there is none): create it or not, and fileres, spopres and
\* resopenmode when it is not created
Plan(create, fileres, spopres, mode) ==
  [create |-> create, fileres |-> fileres, spopres |-> spopres, mode |-> mode]

\* a variant of OpenPlan in which a plain OPEN succeeds on whatever exists
OpenPlanAnyKind(query, stackattr, actioncode, spopen_openmode, attr) ==
  IF query = AL_CREATE THEN Plan(TRUE, 0, 0, 2)
  ELSE IF query = AL_SPOPNFIL
  THEN IF attr = 255
       THEN IF (actioncode \div 16) % 16 = 1
            THEN Plan(TRUE, 0, 2, spopen_openmode % 128)
            ELSE Plan(FALSE, 1, 0, spopen_openmode % 128)
       ELSE IF (attr \div FAT_VOL) % 2 = 1 \/ (attr \div FAT_DIR) % 2 = 1
       THEN Plan(FALSE, 1, 0, spopen_openmode % 128)
       ELSE IF actioncode % 16 = 1 THEN Plan(FALSE, 0, 1, spopen_openmode % 128)
       ELSE IF actioncode % 16 = 2 THEN Plan(TRUE, 0, 3, spopen_openmode % 128)
       ELSE Plan(FALSE, 1, 0, spopen_openmode % 128)
  ELSE Plan(FALSE, IF attr # 255 THEN 0 ELSE 1, 0, stackattr % 256)

\* a variant of OpenPlan that truncates an existing file for any action word
\* whose low nibble is not 1
OpenPlanLoose(query, stackattr, actioncode, spopen_openmode, attr) ==
  IF query = AL_CREATE THEN Plan(TRUE, 0, 0, 2)
  ELSE IF query = AL_SPOPNFIL
  THEN IF attr = 255
       THEN IF (actioncode \div 16) % 16 = 1
            THEN Plan(TRUE, 0, 2, spopen_openmode % 128)
            ELSE Plan(FALSE, 1, 0, spopen_openmode % 128)
       ELSE IF (attr \div FAT_VOL) % 2 = 1 \/ (attr \div FAT_DIR) % 2 = 1
       THEN Plan(FALSE, 1, 0, spopen_openmode % 128)
       ELSE IF actioncode % 16 = 1 THEN Plan(FALSE, 0, 1, spopen_openmode % 128)
       ELSE Plan(TRUE, 0, 3, spopen_openmode % 128)
  ELSE Plan(FALSE,
            IF attr # 255 /\ (attr \div FAT_VOL) % 2 = 0
                          /\ (attr \div FAT_DIR) % 2 = 0 THEN 0 ELSE 1,
            0, stackattr % 256)

OpenPlan(query, stackattr, actioncode, spopen_openmode, attr) ==
  IF query = AL_CREATE THEN Plan(TRUE, 0, 0, 2)
  ELSE IF query = AL_SPOPNFIL
  THEN IF attr = 255
       THEN IF (actioncode \div 16) % 16 = 1
            THEN Plan(TRUE, 0, 2, spopen_openmode % 128)
            ELSE Plan(FALSE, 1, 0, spopen_openmode % 128)
       ELSE IF (attr \div FAT_VOL) % 2 = 1 \/ (attr \div FAT_DIR) % 2 = 1
       THEN Plan(FALSE, 1, 0, spopen_openmode % 128)
       ELSE IF actioncode % 16 = 1 THEN Plan(FALSE, 0, 1, spopen_openmode % 128)
       ELSE IF actioncode % 16 = 2 THEN Plan(TRUE, 0, 3, spopen_openmode % 128)
       ELSE Plan(FALSE, 1, 0, spopen_openmode % 128)
  ELSE Plan(FALSE,
            IF attr # 255 /\ (attr \div FAT_VOL) % 2 = 0
                          /\ (attr \div FAT_DIR) % 2 = 0 THEN 0 ELSE 1,
            0, stackattr % 256)

\* the file step of OPEN / CREATE / SPOPNFIL: fileres, spopres, resopenmode,
\* *fprops and the file system afterwards
OpenStep(c, query, host_directory, fname, host_fullpathname) ==
  Let(getitemattr(c.fs, host_fullpathname, ZeroProps, c.fat), LAMBDA ga :
  Let(OpenPlan(query, Rd16(c.rb, 0), Rd16(c.rb, 2), Rd16(c.rb, 4), ga.attr),
      LAMBDA p :
    IF p.create
    THEN Let(createfile(c.fs, host_directory, fname, ZeroProps, c.fat, c.now),
             LAMBDA cf :
           [fileres |-> cf.res, spopres |-> IF cf.res = 0 THEN p.spopres ELSE 0,
            mode |-> p.mode, fprops |-> cf.fprops, fs |-> cf.fs])
    ELSE [fileres |-> p.fileres, spopres |-> p.spopres, mode |-> p.mode,
          fprops |-> ga.fprops, fs |-> c.fs]))

\* OPEN / CREATE / SPOPNFIL once the directory is known to exist
OpenFile(c, query, ex, host_directory) ==
  Let(shorttolong(c.fs, dospath(c.root, Take(From(c.rb, 6), c.n - 6)), c.root),
      LAMBDA slf :
  Let(IF slf.rc = 0 THEN slf.dst ELSE host_directory \o <<SLASH>> \o ex.file,
      LAMBDA host_fullpathname :
  Let(OpenStep(c, query, host_directory,
               IF slf.rc = 0 THEN copy_after_last_slash(ex.file, slf.dst)
               ELSE ex.file,
               host_fullpathname),
      LAMBDA o :
    IF o.fileres # 0 THEN {ReplyOf(c, 2, <<>>, c.db, o.fs)}
    ELSE Let(getitemss(c.db, host_fullpathname, c.now), LAMBDA g :
           {ReplyOf(c, 0, <<o.fprops.fattr>> \o o.fprops.fcbname
                          \o Le32(o.fprops.ftime) \o Le32(o.fprops.fsize)
                          \o Le16(g.id) \o Le16(o.spopres) \o <<o.mode>>,
                    g.db, o.fs)}))))

DoOpen(c, query) ==
  Let(explodepath(From(c.rb, 6), c.n - 6), LAMBDA ex :
    IF c.n < 6 \/ ~ex.ok
    THEN \* memcpy() with a negative length
         {CrashOf(c)}
    ELSE Let(shorttolong(c.fs, dospath(c.root, ex.dir), c.root), LAMBDA sld :
           IF sld.rc # 0 \/ changedir(c.fs, sld.dst) # 0
           THEN {ReplyOf(c, 3, <<>>, c.db, c.fs)}
           ELSE OpenFile(c, query, ex, sld.dst)))

\* 32-bit words as two 16-bit halves [hi, lo]; a signed word in two's
\* complement
Word(n) == [hi |-> n \div 65536, lo |-> n % 65536]

WordAdd(x, y) ==
  [hi |-> (x.hi + y.hi + (x.lo + y.lo) \div 65536) % 65536,
   lo |-> (x.lo + y.lo) % 65536]

WordNegative(x) == x.hi >= 32768

\* the offset SKFMEND answers for the offset word offs of the request and a
\* file of fsize bytes (fsize below 2^32; long has 64 bits): int32_t offs is
\* set to 0 when positive, fsize is added and the sum converted back to
\* int32_t, and a negative result is set to 0
SeekEnd(offs, fsize) ==
  Let(WordAdd(IF WordNegative(offs) THEN offs ELSE Word(0), fsize), LAMBDA sum :
    IF WordNegative(sum) THEN Word(0) ELSE sum)

DoSkfmend(c) ==
  Let(getfopsize(c.fs, c.db, SlotOf(Rd16(c.rb, 4))), LAMBDA fsize :
    IF fsize < 0 THEN {ReplyOf(c, 2, <<>>, c.db, c.fs)}
    ELSE Let(SeekEnd([hi |-> Rd16(c.rb, 2), lo |-> Rd16(c.rb, 0)], Word(fsize)),
             LAMBDA offs :
           {ReplyOf(c, 0, Le16(offs.lo) \o Le16(offs.hi), c.db, c.fs)}))

\* the if / else if chain over the query
Dispatch(c, query) ==
  IF query = AL_DISKSPACE THEN DoDiskspace(c)
  ELSE IF query = AL_READFIL /\ c.n = 8 THEN DoReadfil(c)
  ELSE IF query = AL_WRITEFIL /\ c.n >= 6 THEN DoWritefil(c)
  ELSE IF query = AL_LOCKFIL \/ query = AL_UNLOCKFIL
  THEN {ReplyOf(c, 0, <<>>, c.db, c.fs)}
  ELSE IF query = AL_FINDFIRST THEN DoFindfirst(c)
  ELSE IF query = AL_FINDNEXT THEN DoFindnext(c)
  ELSE IF query = AL_MKDIR \/ query = AL_RMDIR THEN DoMkdirRmdir(c, query)
  ELSE IF query = AL_CHDIR THEN DoChdir(c)
  ELSE IF query = AL_CLSFIL THEN {ReplyOf(c, 0, <<>>, c.db, c.fs)}
  ELSE IF query = AL_SETATTR /\ c.n > 1 THEN DoSetattr(c)
  ELSE IF query = AL_GETATTR /\ c.n > 0 THEN DoGetattr(c)
  ELSE IF query = AL_RENAME /\ c.n > 2 THEN DoRename(c)
  ELSE IF query = AL_DELETE THEN DoDelete(c)
  ELSE IF query \in {AL_OPEN, AL_CREATE, AL_SPOPNFIL} THEN DoOpen(c, query)
  ELSE IF query = AL_SKFMEND /\ c.n = 6 THEN DoSkfmend(c)
  ELSE {IgnoreOf(c, -1)}

\* a faulty cache check: it compares the server's address in the stored
\* answer, not the client's
CacheHitWrongMac(answer, req) ==
  /\ answer.frame.seq = req.seq
  /\ answer.frame.src = req.src
  /\ answer.len > 0

\* the cache check of process(): the answer in the slot is for this client
\* and this sequence number
CacheHit(answer, req) ==
  /\ answer.frame.seq = req.seq
  /\ answer.frame.dst = req.src
  /\ answer.len > 0

\* a faulty MAC swap: the answer's source is the request's destination
AnswerHeaderSwap(req) ==
  [dst |-> req.src, src |-> req.dst, etype |-> req.etype, pad |-> req.pad,
   elen |-> req.elen, cksum |-> req.cksum, proto |-> req.proto,
   seq |-> req.seq, b58 |-> req.drv, b59 |-> req.al, payload |-> <<>>]

\* the header copy and the MAC swap
AnswerHeader(req) ==
  [dst |-> req.src, src |-> mymac, etype |-> req.etype, pad |-> req.pad,
   elen |-> req.elen, cksum |-> req.cksum, proto |-> req.proto,
   seq |-> req.seq, b58 |-> req.drv, b59 |-> req.al, payload |-> <<>>]

\* a faulty drive check: the range only, not the mapping
DriveOkRange(reqdrv) == ~(reqdrv < 2 \/ reqdrv > 25)

\* is the drive valid (C: - Z:), and do I know it?
DriveOk(reqdrv) == ~(reqdrv < 2 \/ reqdrv > 25) /\ rootarray[reqdrv] # NULL

\* process(answer, reqbuff, reqbufflen, mymac, rootarray) on the frame req
\* whose bytes from 60 on are rb, with the handle table db, the file system
\* fs and the clock now
process(answer, req, rb, reqbufflen, db, fs, now) ==
  LET hdr == AnswerHeader(req)
      reqdrv == req.drv % 32
      c == [hdr |-> hdr, rb |-> rb, n |-> reqbufflen - 60, drv |-> reqdrv,
            root |-> rootarray[reqdrv], fat |-> drivesfat[reqdrv],
            db |-> db, fs |-> fs, now |-> now]
      quiet(rc, frame) ==
        {[rc |-> rc, frame |-> frame, db |-> db, fs |-> fs, crashed |-> FALSE]}
  IN IF reqbufflen < 60 THEN quiet(-1, answer.frame)
     ELSE IF CacheHit(answer, req) THEN quiet(answer.len, answer.frame)
     ELSE IF ~DriveOk(reqdrv) THEN quiet(-3, hdr)
     ELSE Dispatch(c, req.al)

----------------------------------------------------------------------------
(* ethersrv.c: one turn of the main loop                                   *)

\* a received frame adds rlen, the count recv() returned, and carries the
\* drive and the query in drv and al (bytes 58 and 59)
cksumflagOf(f) == f.proto \div 128

\* the bytes from 56 up to len that bsdsum() runs over
Bytes56(proto, seq, b58, b59, payload, len) ==
  <<proto, seq, b58, b59>> \o Take(payload, len - 60)

\* the length main() goes on with: the embedded one when there is one
EffLen(f) == IF f.elen > 0 THEN f.elen ELSE f.rlen

\* a faulty validation: the checksum is not looked at
ValidateNoCksum(f) ==
  /\ ~(f.rlen < 60)
  /\ (f.dst = mymac \/ f.dst = BcastMac)
  /\ f.etype = ETHERTYPE_DFS
  /\ f.proto % 128 = PROTOVER
  /\ (f.elen > 0 => ~(f.elen > f.rlen \/ f.elen < 60))

\* the checks of main() a frame passes before the cache lookup
Validate(f) ==
  /\ ~(f.rlen < 60)
  /\ (f.dst = mymac \/ f.dst = BcastMac)
  /\ f.etype = ETHERTYPE_DFS
  /\ f.proto % 128 = PROTOVER
  /\ (f.elen > 0 => ~(f.elen > f.rlen \/ f.elen < 60))
  /\ (cksumflagOf(f) # 0 =>
        bsdsum(Bytes56(f.proto, f.seq, f.drv, f.al, f.payload, EffLen(f))) = f.cksum)

\* rx_buffer from byte 60 on after recv() stored the frame f
Received(buf, f) ==
  IF f.rlen < 60 THEN buf ELSE f.payload \o From(buf, Len(f.payload))

\* "Prepare outgoing frame": the length, then the checksum or its absence,
\* as the request at hand asks for
Prepare(frame, len, cksumflag) ==
  LET fl == [frame EXCEPT !.elen = len]
  IN IF cksumflag # 0
     THEN [fl EXCEPT !.cksum = bsdsum(Bytes56(fl.proto, fl.seq, fl.b58, fl.b59,
                                              fl.payload, len)),
                     !.proto = (fl.proto % 128) + 128]
     ELSE [fl EXCEPT !.cksum = 0, !.proto = fl.proto % 128]

\* the all-zero frame of a fresh cache entry
ZeroFrame ==
  [dst |-> ZeroMac, src |-> ZeroMac, etype |-> 0, pad |-> ZeroFill(38),
   elen |-> 0, cksum |-> 0, proto |-> 0, seq |-> 0, b58 |-> 0, b59 |-> 0,
   payload |-> <<>>]

\* nothing on the wire
NoFrame == [len |-> 0, frame |-> ZeroFrame]

\* a faulty cache update: an ignored query leaves the stored length alone
CacheEntryKeepLen(old, frame, len, cksumflag, now) ==
  [frame |-> IF len > 0 THEN Prepare(frame, len, cksumflag) ELSE frame,
   timestamp |-> IF len >= 0 THEN now ELSE old.timestamp,
   len |-> IF len >= 0 THEN len ELSE old.len]

\* "update cache entry" and "Prepare outgoing frame" for the value len that
\* process() returned and the answer frame it left
CacheEntry(old, frame, len, cksumflag, now) ==
  [frame |-> IF len > 0 THEN Prepare(frame, len, cksumflag) ELSE frame,
   timestamp |-> IF len >= 0 THEN now ELSE old.timestamp,
   len |-> IF len >= 0 THEN len ELSE 0]

----------------------------------------------------------------------------
(* The served tree and the frames of the clients                           *)

\* seconds that pass in one step of the clock
TickSecs == (IdleSecs \div 2) + 1

NameR == Str(<<"r">>)

NameSub == Str(<<"S", "u", "b">>)

NameA == Str(<<"a", ".", "t", "x", "t">>)

NameB == Str(<<"b", ".", "t", "x", "t">>)

NameX == Str(<<"x">>)

DirNode == [dir |-> TRUE, data |-> <<>>, mtime |-> T0, attr |-> 16]

FileNode(data) == [dir |-> FALSE, data |-> data, mtime |-> T0, attr |-> 32]

\* the host file system at startup: /r is served as C:, /x lies outside of it
HostFs0 ==
  (<<>> :> DirNode) @@ (<<NameR>> :> DirNode) @@ (<<NameR, NameSub>> :> DirNode)
  @@ (<<NameR, NameSub, NameA>> :> FileNode(<<1, 2>>))
  @@ (<<NameR, NameB>> :> FileNode(<<3>>))
  @@ (<<NameX>> :> FileNode(<<9>>))

ClientA == MacOf(2)

ClientB == MacOf(3)

Clients == {ClientA, ClientB}

\* a well-formed request frame: addressed to the server, no checksum, the
\* embedded length equal to the frame's length
Req(src, seq, drv, al, payload) ==
  [rlen |-> 60 + Len(payload), dst |-> mymac, src |-> src,
   etype |-> ETHERTYPE_DFS, pad |-> ZeroFill(38), elen |-> 60 + Len(payload),
   cksum |-> 0, proto |-> PROTOVER, seq |-> seq, drv |-> drv, al |-> al,
   payload |-> payload]

\* the same frame with the checksum flag set and the checksum filled in
WithCksum(f) ==
  [f EXCEPT !.proto = PROTOVER + 128,
            !.cksum = bsdsum(Bytes56(PROTOVER + 128, f.seq, f.drv, f.al,
                                     f.payload, f.rlen))]

\* DOS paths of the requests
PathSubA == Str(<<"bslash", "S", "U", "B", "bslash", "A", ".", "T", "X", "T">>)

PathB == Str(<<"bslash", "B", ".", "T", "X", "T">>)

PathNew == Str(<<"bslash", "N", "E", "W">>)

PathSubAll ==
  Str(<<"bslash", "S", "U", "B", "bslash", "?", "?", "?", "?", "?", "?", "?",
        "?", ".", "?", "?", "?">>)

MaskAll == [i \in 1..11 |-> QMARK]

OpenReq(src, seq, path) == Req(src, seq, 2, AL_OPEN, Le16(2) \o Le16(0) \o Le16(0) \o path)

ReadReq(src, seq, id) == Req(src, seq, 2, AL_READFIL, Le32(0) \o Le16(id) \o Le16(2))

WriteReq(src, seq, id) == Req(src, seq, 2, AL_WRITEFIL, Le32(0) \o Le16(id) \o <<7>>)

SeekReq(src, seq, id) == Req(src, seq, 2, AL_SKFMEND, Le32(0) \o Le16(id))

FindFirstReq(src, seq, path) == Req(src, seq, 2, AL_FINDFIRST, <<FAT_DIR>> \o path)

FindNextReq(src, seq, id, fpos) ==
  Req(src, seq, 2, AL_FINDNEXT, Le16(id) \o Le16(fpos) \o <<FAT_DIR>> \o MaskAll)

\* requests that pass the validation of main()
HeaderFrames ==
  LET d == Req(ClientA, 7, 2, AL_DISKSPACE, <<>>)
  IN {d, WithCksum(d), [d EXCEPT !.pad = [ZeroFill(38) EXCEPT ![1] = 1]],
      [d EXCEPT !.dst = BcastMac], [d EXCEPT !.elen = 0],
      Req(ClientA, 8, 2, AL_DISKSPACE, <<>>),
      Req(ClientB, 7, 2, AL_DISKSPACE, <<>>),
      Req(ClientA, 7, 2, AL_INSTALLCHK, <<>>),
      Req(ClientA, 8, 2, AL_INSTALLCHK, <<>>),
      Req(ClientA, 7, 2, AL_UNKNOWN, <<>>),
      Req(ClientA, 8, 2, AL_UNKNOWN, <<>>),
      Req(ClientA, 8, 2, AL_READFIL, <<0>>),
      Req(ClientA, 7, 3, AL_DISKSPACE, <<>>),
      Req(ClientA, 8, 3, AL_DISKSPACE, <<>>),
      Req(ClientA, 7, 1, AL_DISKSPACE, <<>>),
      Req(ClientA, 8, 26, AL_DISKSPACE, <<>>)}

\* requests on files, directories and handles
FileFrames ==
  {OpenReq(ClientA, 7, PathSubA), OpenReq(ClientB, 8, PathB),
   ReadReq(ClientA, 8, 0), ReadReq(ClientA, 7, 65535),
   WriteReq(ClientA, 8, 0), SeekReq(ClientA, 8, 0),
   Req(ClientA, 7, 2, AL_MKDIR, PathNew),
   FindFirstReq(ClientA, 7, PathSubAll),
   FindNextReq(ClientA, 8, 0, 1), FindNextReq(ClientA, 7, 0, 2),
   FindNextReq(ClientA, 7, 0, 3), FindNextReq(ClientA, 8, 65535, 1)}

\* frames that fail one validation step each
BadFrames ==
  LET d == Req(ClientA, 7, 2, AL_DISKSPACE, <<>>)
  IN {[d EXCEPT !.rlen = 59], [d EXCEPT !.dst = ClientB],
      [d EXCEPT !.etype = 2048], [d EXCEPT !.proto = 1],
      [d EXCEPT !.elen = 61], [d EXCEPT !.elen = 59],
      [WithCksum(d) EXCEPT !.cksum = 0]}

Frames == HeaderFrames \cup FileFrames \cup BadFrames

\* the frames that exercise the receive path, the reply cache and the framing
\* of the answers
WireFrames ==
  LET d == Req(ClientA, 7, 2, AL_DISKSPACE, <<>>)
  IN {d, WithCksum(d), [d EXCEPT !.pad = [ZeroFill(38) EXCEPT ![1] = 1]],
      [d EXCEPT !.dst = BcastMac],
      Req(ClientB, 7, 2, AL_DISKSPACE, <<>>),
      Req(ClientA, 7, 2, AL_UNKNOWN, <<>>),
      Req(ClientA, 8, 2, AL_UNKNOWN, <<>>),
      Req(ClientA, 8, 2, AL_READFIL, <<0>>),
      Req(ClientA, 7, 3, AL_DISKSPACE, <<>>),
      Req(ClientA, 8, 26, AL_DISKSPACE, <<>>),
      Req(ClientA, 7, 2, AL_MKDIR, PathNew),
      OpenReq(ClientA, 7, PathSubA)}
    \cup BadFrames

------------------------------------------------------------------

----------------------------------------------------------------------------
(* The server as a state machine                                           *)

VARIABLES
  answcache,  \* the reply cache: slot -> [frame, timestamp, len]
  fsdb,       \* the handle table: slot -> [name, lastused, dirlist]
  hostfs,     \* the host file system
  now,        \* time(NULL)
  rx_buffer,  \* the receive buffer from byte 60 on
  crashed,    \* the process has died
  nframes,    \* frames received so far
  nticks,     \* clock steps so far
  req,        \* the frame received last
  sent,       \* what the last turn of the main loop sent: [len, frame]
  outcome,    \* how the last turn ended
  last,       \* history: per client, the seq of its last request served and
              \* what was sent for it
  evicted,    \* history: the [id, name] pairs dropped from the handle table
  iter,       \* history: the directory search under way
  pc,         \* where main() stands: "top" (at the test of the while),
              \* "armed" (test passed, select() not yet called),
              \* "select" (blocked in select()), "exited"
  terminationflag,  \* the latch that sigcatcher() sets
  lockfile,   \* the lock file exists
  probe,      \* a computation of process() taken alone: its inputs and result
  inst,       \* server processes started on the host: instance -> [pc, daemon]
  memo        \* history: [req, fs, sent] of the requests answered by process()

vars == <<answcache, fsdb, hostfs, now, rx_buffer, crashed, nframes, nticks,
          req, sent, outcome, last, evicted, iter, pc, terminationflag,
          lockfile, probe, inst, memo>>

IterOff ==
  [on |-> FALSE, done |-> FALSE, dir |-> NULL, dirss |-> 0, fpos |-> 0,
   attr |-> 0, mask |-> <<>>, isroot |-> FALSE, seen |-> <<>>]

\* the static memory of a process that has not received a frame, but for the
\* reply cache
Rest0 ==
  /\ fsdb = [i \in 0..MaxSlots |-> EmptySlot]
  /\ hostfs = HostFs0
  /\ now = T0
  /\ rx_buffer = <<>>
  /\ crashed = FALSE
  /\ nframes = 0
  /\ nticks = 0
  /\ req = Req(ZeroMac, 0, 0, 0, <<>>)
  /\ sent = NoFrame
  /\ outcome = "none"
  /\ last = [c \in Clients |-> [seq |-> -1, sent |-> NoFrame]]
  /\ evicted = {}
  /\ iter = IterOff
  /\ pc = "top"
  /\ terminationflag = FALSE
  /\ memo = {}

Memory0 ==
  /\ answcache = [i \in 0..(ANSWCACHESZ - 1) |->
                    [frame |-> ZeroFrame, timestamp |-> 0, len |-> 0]]
  /\ Rest0

\* the one server process, past lockme() and at the top of its loop
Server0 == Memory0 /\ lockfile = TRUE /\ inst = <<>>

\* no computation is being looked at
NoProbe ==
  [op |-> "none", a |-> [hi |-> 0, lo |-> 0], b |-> [hi |-> 0, lo |-> 0],
   done |-> FALSE, ax |-> 0, out |-> <<>>,
   fs |-> HostFs0, path |-> <<>>, alt |-> <<>>,
   res |-> [rc |-> 0, dst |-> <<>>], res2 |-> [rc |-> 0, dst |-> <<>>],
   args |-> <<>>, load |-> [rc |-> "none", root |-> <<>>, written |-> {}]]

Init == Server0 /\ probe = NoProbe

\* the [id, name] pairs that the step from db to db1 dropped
Dropped(db, db1) ==
  {[id |-> i, name |-> db[i].name] :
     i \in {j \in 0..(MaxSlots - 1) : db[j].name # NULL /\ db1[j].name # db[j].name}}

\* AX of an answer frame
AxOf(frame) == frame.b58 + 256 * frame.b59

\* the search that a dispatched FINDFIRST with payload rb of n bytes starts,
\* given the answer frame and the file system
IterStart(rb, n, fs, answer) ==
  Let(explodepath(From(rb, 1), n - 1), LAMBDA ex :
  Let(dospath(RootC, ex.dir), LAMBDA directory :
  Let(AxOf(answer) = 0, LAMBDA found :
    [on |-> TRUE, done |-> ~found,
     dir |-> shorttolong(fs, directory, RootC).dst,
     dirss |-> IF found THEN Rd16(answer.payload, 20) ELSE 0,
     fpos |-> IF found THEN Rd16(answer.payload, 22) ELSE 0,
     attr |-> At(rb, 0), mask |-> filename2fcb(lostring(ex.file)),
     isroot |-> isroot(RootC, directory) # 0,
     seen |-> IF found THEN <<SubSeq(answer.payload, 2, 12)>> ELSE <<>>])))

\* a FINDNEXT with payload rb passes the cursor of the search it
IsNextOf(it, rb) ==
  /\ it.on /\ ~it.done
  /\ Rd16(rb, 0) = it.dirss /\ Rd16(rb, 2) = it.fpos
  /\ At(rb, 4) = it.attr /\ [i \in 1..11 |-> At(rb, 4 + i)] = it.mask

\* the search after the answer to a FINDNEXT that continued it
IterStep(it, answer) ==
  IF AxOf(answer) # 0 THEN [it EXCEPT !.done = TRUE]
  ELSE [it EXCEPT !.fpos = Rd16(answer.payload, 22),
                  !.seen = Append(it.seen, SubSeq(answer.payload, 2, 12))]

\* the history of the search after a dispatched request f was answered
IterAfter(it, f, rb, n, fs, fs1, answer) ==
  IF fs1 # fs THEN IterOff
  ELSE IF f.al = AL_FINDFIRST THEN IterStart(rb, n, fs, answer)
  ELSE IF f.al = AL_FINDNEXT /\ IsNextOf(it, rb) THEN IterStep(it, answer)
  ELSE it

\* a turn of the main loop on a frame that fails the validation: continue
Drop(f) ==
  /\ pc = "select"
  /\ ~crashed /\ nframes < MaxFrames
  /\ ~Validate(f)
  /\ rx_buffer' = Received(rx_buffer, f)
  /\ nframes' = nframes + 1
  /\ req' = f
  /\ sent' = NoFrame
  /\ outcome' = "drop"
  /\ pc' = "top"
  /\ UNCHANGED <<answcache, fsdb, hostfs, now, crashed, nticks, last, evicted,
                 iter, terminationflag, lockfile, probe, inst, memo>>

\* what a turn of the main loop leaves behind when process() ended as r for
\* the frame f, found the cache entry idx (hit: by the cache check)
Served(f, rb, idx, hit, r) ==
  /\ rx_buffer' = rb
  /\ nframes' = nframes + 1
  /\ req' = f
  /\ crashed' = r.crashed
  /\ hostfs' = r.fs
  /\ IF r.crashed
     THEN /\ sent' = NoFrame
          /\ outcome' = "crash"
          /\ UNCHANGED <<answcache, fsdb, last, evicted, iter>>
     ELSE \E e \in {CacheEntry(answcache[idx], r.frame, r.rc, cksumflagOf(f), now)} :
            /\ answcache' = [answcache EXCEPT ![idx] = e]
            /\ fsdb' = r.db
            /\ sent' = IF r.rc > 0 THEN [len |-> e.len, frame |-> e.frame]
                       ELSE NoFrame
            /\ outcome' = IF hit THEN "hit"
                          ELSE IF r.rc > 0 THEN "reply" ELSE "ignore"
            /\ last' = [last EXCEPT ![f.src] = [seq |-> f.seq, sent |-> sent']]
            /\ evicted' = evicted \cup Dropped(fsdb, r.db)
            /\ iter' = IF hit \/ r.rc <= 0 THEN iter
                       ELSE IterAfter(iter, f, rb, EffLen(f) - 60, hostfs, r.fs,
                                      e.frame)

\* a turn of the main loop on a frame that passes the validation: the cache
\* lookup, process(), the update of the cache entry and the send(), for a
\* server that receives at most n frames
ServeWithin(f, n) ==
  /\ pc = "select"
  /\ ~crashed /\ nframes < n
  /\ Validate(f)
  /\ \E rb \in {Received(rx_buffer, f)} :
     \E idx \in {findcacheentry(answcache, f.src)} :
     \E r \in process(answcache[idx], f, rb, EffLen(f), fsdb, hostfs, now) :
       Served(f, rb, idx, CacheHit(answcache[idx], f), r)
  /\ pc' = "top"
  /\ UNCHANGED <<now, nticks, terminationflag, lockfile, probe, inst>>

ServeTurn(f) == ServeWithin(f, MaxFrames)

Serve(f) == ServeTurn(f) /\ UNCHANGED memo

\* the same turn, with the request, the host file system it met and the
\* frame sent written down when process() answered it
ServeNoted(f) ==
  /\ ServeTurn(f)
  /\ memo' = IF outcome' = "reply"
             THEN memo \cup {[req |-> f, fs |-> hostfs, sent |-> sent',
                               now |-> now, db |-> fsdb]}
             ELSE memo

\* the clock advances
Tick ==
  /\ ~crashed /\ nticks < MaxTicks
  /\ now' = now + TickSecs
  /\ nticks' = nticks + 1
  /\ UNCHANGED <<answcache, fsdb, hostfs, rx_buffer, crashed, nframes, req,
                 sent, outcome, last, evicted, iter, pc, terminationflag,
                 lockfile, probe, inst, memo>>

\* what a step of main() outside a turn of the loop leaves alone
LoopFrame ==
  UNCHANGED <<answcache, fsdb, hostfs, now, rx_buffer, crashed, nframes, nticks,
              req, sent, outcome, last, evicted, iter, probe, inst, memo>>

\* while (!terminationflag): into the body, or out of the loop and on to
\* unlockme(lockfile)
WhileTest ==
  /\ ~crashed /\ pc = "top"
  /\ IF terminationflag
     THEN pc' = "exited" /\ lockfile' = FALSE
     ELSE pc' = "armed" /\ lockfile' = lockfile
  /\ UNCHANGED terminationflag
  /\ LoopFrame

\* FD_ZERO, FD_SET and the call of select(), which blocks
EnterSelect ==
  /\ ~crashed /\ pc = "armed"
  /\ pc' = "select"
  /\ UNCHANGED <<terminationflag, lockfile>>
  /\ LoopFrame

\* SIGTERM, SIGQUIT or SIGINT is delivered: sigcatcher() sets the flag; a
\* select() that is blocked returns EINTR and main() continues
sigcatcher ==
  /\ ~crashed /\ pc # "exited" /\ ~terminationflag
  /\ terminationflag' = TRUE
  /\ pc' = IF pc = "select" THEN "top" ELSE pc
  /\ UNCHANGED lockfile
  /\ LoopFrame

Next ==
  \/ \E f \in Frames : Drop(f)
  \/ \E f \in Frames : Serve(f)
  \/ Tick
  \/ WhileTest
  \/ EnterSelect

Spec == Init /\ [][Next]_vars

\* the same server, receiving the frames on the receive path and the cache
NextWire ==
  \/ \E f \in WireFrames : Drop(f)
  \/ \E f \in WireFrames : Serve(f)
  \/ Tick
  \/ WhileTest
  \/ EnterSelect

SpecWire == Init /\ [][NextWire]_vars

\* the DISKSPACE request of the k-th of the clients that were served before
\* the clients at hand came, and the cache entry its turn left, one second
\* after the turn for the client before it
EarlierFrame(k) == Req(MacOf(16 + k), 7, 2, AL_DISKSPACE, <<>>)

EarlierEntry(k) ==
  Let([frame |-> ZeroFrame, timestamp |-> 0, len |-> 0], LAMBDA fresh :
  Let(CHOOSE r \in process(fresh, EarlierFrame(k), <<>>, 60,
                           [i \in 0..MaxSlots |-> EmptySlot], HostFs0,
                           T0 - ANSWCACHESZ + k) : TRUE,
      LAMBDA r : CacheEntry(fresh, r.frame, r.rc, 0, T0 - ANSWCACHESZ + k)))

\* the reply cache after all entries but as many as there are clients at hand
\* were filled by earlier clients
BusyCache ==
  [i \in 0..(ANSWCACHESZ - 1) |->
     IF i < ANSWCACHESZ - Cardinality(Clients) THEN EarlierEntry(i)
     ELSE [frame |-> ZeroFrame, timestamp |-> 0, len |-> 0]]

\* the server at the top of its loop after it answered the earlier clients
InitBusy ==
  /\ answcache = BusyCache
  /\ Rest0 /\ lockfile = TRUE /\ inst = <<>> /\ probe = NoProbe

\* the same server and frames, with 16 clients in all
SpecBusy == InitBusy /\ [][NextWire]_vars

\* a DELETE of the DOS path
DeleteReq(src, seq, path) == Req(src, seq, 2, AL_DELETE, path)

PathSubAllTxt ==
  Str(<<"bslash", "S", "U", "B", "bslash", "?", "?", "?", "?", "?", "?", "?",
        "?", ".", "T", "X", "T">>)

PathSubAMixed == Str(<<"bslash", "s", "u", "B", "bslash", "a", ".", "T", "x", "t">>)

PathNope == Str(<<"bslash", "N", "O", "P", "E", ".", "T", "X", "T">>)

PathSub == Str(<<"bslash", "S", "U", "B">>)

RenameReq(src, seq, p1, p2) == Req(src, seq, 2, AL_RENAME, <<Len(p1)>> \o p1 \o p2)

\* the size of a file that no longer fits an answer frame behind its header
BigSize == FRAMESZ - 60 + 1

\* requests on paths: DELETE, GETATTR, RENAME, and reads past the frame size
OpsFrames ==
  {DeleteReq(ClientA, 7, PathSubAllTxt), DeleteReq(ClientA, 8, PathB),
   Req(ClientA, 7, 2, AL_GETATTR, PathSubA),
   Req(ClientA, 8, 2, AL_GETATTR, PathSubAMixed),
   Req(ClientA, 8, 2, AL_GETATTR, PathNew),
   RenameReq(ClientA, 7, PathNope, PathNew),
   RenameReq(ClientA, 8, PathB, PathSub),
   RenameReq(ClientB, 7, PathB, PathNew),
   OpenReq(ClientB, 7, PathB),
   Req(ClientA, 7, 2, AL_WRITEFIL, Le32(BigSize) \o Le16(0)),
   Req(ClientA, 8, 2, AL_READFIL, Le32(0) \o Le16(0) \o Le16(65535)),
   Req(ClientA, 7, 2, AL_CLSFIL, Le16(0)),
   Req(ClientA, 8, 2, AL_CMMTFIL, Le16(0)),
   Req(ClientB, 7, 2, AL_LOCKFIL, Le16(0)),
   Req(ClientB, 8, 2, AL_UNLOCKFIL, Le16(0)),
   [DeleteReq(ClientA, 7, PathB) EXCEPT !.rlen = 59]}

\* the same server, receiving the requests on paths
NextOps ==
  \/ \E f \in OpsFrames : Drop(f)
  \/ \E f \in OpsFrames : Serve(f)
  \/ Tick
  \/ WhileTest
  \/ EnterSelect

SpecOps == Init /\ [][NextOps]_vars

\* SPOPNFIL requests: stack attribute 0x20, the action word, open mode 2
SpopReq(src, seq, action, path) ==
  Req(src, seq, 2, AL_SPOPNFIL, Le16(32) \o Le16(action) \o Le16(2) \o path)

\* action words of the extended open for a file that exists: open, truncate,
\* and a word with the create nibble and an unassigned low nibble
SpopActions == {1, 2, 19}

\* each action word on an existing file, create and open on a missing one,
\* open on a directory, and a frame that main() turns down
SpopFrames ==
  {SpopReq(ClientA, 7, a, PathB) : a \in SpopActions}
    \cup {SpopReq(ClientA, 8, a, PathNew) : a \in {1, 16}}
    \cup {SpopReq(ClientB, 7, 1, PathSub)}
    \cup {[SpopReq(ClientA, 7, 1, PathB) EXCEPT !.rlen = 59]}

\* the same server, receiving extended opens
NextSpop ==
  \/ \E f \in SpopFrames : Drop(f)
  \/ \E f \in SpopFrames : Serve(f)
  \/ Tick
  \/ WhileTest
  \/ EnterSelect

SpecSpop == Init /\ [][NextSpop]_vars

\* drive sizes as 32 KiB units plus bytes, around the 2 GiB limit and up to
\* the 10 GiB drive with 4 GiB free
DiskSizes ==
  {[hi |-> h, lo |-> l] : h \in {0, 1, 65534, 65535, 65536, 131072, 327680},
                          l \in {0, 32766, 32767}}

\* offset words of SKFMEND: 0, 1, 2^31 - 1, -1, -2, -65536, 1 - 2^31, -2^31
SeekOffsets ==
  {[hi |-> 0, lo |-> 0], [hi |-> 0, lo |-> 1], [hi |-> 32767, lo |-> 65535],
   [hi |-> 65535, lo |-> 65535], [hi |-> 65535, lo |-> 65534],
   [hi |-> 65535, lo |-> 0], [hi |-> 32768, lo |-> 1], [hi |-> 32768, lo |-> 0]}

\* file sizes: 0, 1, 2, 65535, 65536, 2^31 - 1, 2^31, 2^32 - 1
FileSizes ==
  {[hi |-> 0, lo |-> 0], [hi |-> 0, lo |-> 1], [hi |-> 0, lo |-> 2],
   [hi |-> 0, lo |-> 65535], [hi |-> 1, lo |-> 0], [hi |-> 32767, lo |-> 65535],
   [hi |-> 32768, lo |-> 0], [hi |-> 65535, lo |-> 65535]}

\* the string of the canonical path p
RECURSIVE PathString(_)
PathString(p) ==
  IF p = <<>> THEN <<>> ELSE PathString(Parent(p)) \o <<SLASH>> \o p[Len(p)]

\* realpath(): the canonical path of an existing entry
realpath(fs, arg) ==
  IF Exists(fs, arg)
  THEN [ok |-> TRUE,
        path |-> IF Namei(fs, arg).path = <<>> THEN <<SLASH>>
                 ELSE PathString(Namei(fs, arg).path)]
  ELSE [ok |-> FALSE, path |-> <<>>]

\* main(): the loop that loads the paths args into root[], from the i-th on.
\* root[] has 26 entries: a store at index 26 lies outside of it, and the
\* process dies of it or goes on with root[] as it is
RECURSIVE LoadFrom(_, _, _, _, _)
LoadFrom(fs, args, i, root, written) ==
  IF i >= Len(args) THEN {[rc |-> "run", root |-> root, written |-> written]}
  ELSE IF ~realpath(fs, args[i + 1]).ok
  THEN {[rc |-> "usage", root |-> root, written |-> written]}
  ELSE IF i + 2 > 25
  THEN {[rc |-> "crash", root |-> root, written |-> written \cup {i + 2}]}
         \cup LoadFrom(fs, args, i + 1, root, written \cup {i + 2})
  ELSE LoadFrom(fs, args, i + 1,
                [root EXCEPT ![i + 2] = realpath(fs, args[i + 1]).path],
                written \cup {i + 2})

\* main() up to raw_sock(), for the interface name and the paths args:
\* between 2 and 26 arguments are let through
LoadRoots(fs, args) ==
  IF Len(args) + 1 < 2 \/ Len(args) + 1 > 26
  THEN {[rc |-> "usage", root |-> [d \in 0..25 |-> NULL], written |-> {}]}
  ELSE LoadFrom(fs, args, 0, [d \in 0..25 |-> NULL], {})

\* directories and a file to serve, and a path that does not exist
RootArgs ==
  <<RootC, Str(<<"/", "r", "/", "S", "u", "b">>),
    Str(<<"/", "r", "/", ".", "/", "S", "u", "b", "/", ".", ".">>), Str(<<"/">>)>>

\* command lines of 0 to 26 paths, and one with a path that does not resolve
ArgLists ==
  {[i \in 1..n |-> RootArgs[(i % 4) + 1]] : n \in 0..26}
    \cup {<<RootC, Str(<<"/", "n", "o">>), RootC>>}

\* a host file system with entries that differ in letter case only
HostFsTwins ==
  HostFs0 @@ (<<NameR, Str(<<"s", "u", "b">>)>> :> FileNode(<<>>))
          @@ (<<NameR, Str(<<"B", ".", "T", "X", "T">>)>> :> FileNode(<<4>>))

\* DOS paths in two spellings each: of a file in a directory, of a file and a
\* directory of the root, of the root, and of entries that do not exist
PathPairs ==
  {<<PathSubA, PathSubAMixed>>, <<PathSubA, lostring(PathSubA)>>,
   <<PathB, lostring(PathB)>>, <<PathSub, lostring(PathSub)>>,
   <<PathSub, Str(<<"bslash", "S", "u", "b">>)>>,
   <<PathNew, lostring(PathNew)>>, <<PathNope, lostring(PathNope)>>,
   <<Str(<<"bslash">>), Str(<<"bslash">>)>>,
   <<Str(<<"bslash", "B", ".", "T", "X", "T", "bslash", "A">>),
     Str(<<"bslash", "b", ".", "t", "x", "t", "bslash", "a">>)>>,
   <<Str(<<"bslash", "N", "O", "bslash", "A", ".", "T", "X", "T">>),
     Str(<<"bslash", "n", "o", "bslash", "A", ".", "t", "x", "t">>)>>}

\* the computations of process() looked at alone, not yet carried out
Probes ==
  {[NoProbe EXCEPT !.op = "resolve", !.fs = fs, !.path = pp[1], !.alt = pp[2]] :
     fs \in {HostFs0, HostFsTwins}, pp \in PathPairs} \cup
  {[NoProbe EXCEPT !.op = "load", !.args = a] : a \in ArgLists} \cup
  {[NoProbe EXCEPT !.op = "diskspace", !.a = t, !.b = f] :
     t \in DiskSizes, f \in DiskSizes}
    \cup {[NoProbe EXCEPT !.op = "skfmend", !.a = o, !.b = z] :
            o \in SeekOffsets, z \in FileSizes}

InitCalc == Server0 /\ probe \in Probes

Quiet ==
  UNCHANGED <<answcache, fsdb, hostfs, now, rx_buffer, crashed, nframes, nticks,
              req, sent, outcome, last, evicted, iter, pc, terminationflag,
              lockfile, inst, memo>>

\* the DISKSPACE branch on the sizes statvfs() gave
ApplyDiskspace ==
  /\ probe.op = "diskspace" /\ ~probe.done
  /\ \E d \in {DiskspaceAnswer(probe.a, probe.b)} :
       probe' = [probe EXCEPT !.done = TRUE, !.ax = d.ax, !.out = d.payload]
  /\ Quiet

\* the SKFMEND branch on the offset of the request and the size of the file
ApplySkfmend ==
  /\ probe.op = "skfmend" /\ ~probe.done
  /\ \E o \in {SeekEnd(probe.a, probe.b)} :
       probe' = [probe EXCEPT !.done = TRUE, !.out = Le16(o.lo) \o Le16(o.hi)]
  /\ Quiet

\* the path of a request made into the path shorttolong() is given, and
\* shorttolong() on it, for both spellings
ApplyResolve ==
  /\ probe.op = "resolve" /\ ~probe.done
  /\ probe' = [probe EXCEPT
                 !.done = TRUE,
                 !.res = shorttolong(probe.fs, dospath(RootC, probe.path), RootC),
                 !.res2 = shorttolong(probe.fs, dospath(RootC, probe.alt), RootC)]
  /\ Quiet

\* the start of main() on a command line
ApplyLoad ==
  /\ probe.op = "load" /\ ~probe.done
  /\ \E o \in LoadRoots(probe.fs, probe.args) :
       probe' = [probe EXCEPT !.done = TRUE, !.load = o]
  /\ Quiet

NextCalc ==
  \/ ApplyDiskspace
  \/ ApplySkfmend
  \/ ApplyResolve
  \/ ApplyLoad

SpecCalc == InitCalc /\ [][NextCalc]_vars

\* the requests on files and handles, and a frame that main() turns down
MemoFrames == FileFrames \cup {[OpenReq(ClientA, 7, PathSubA) EXCEPT !.rlen = 59]}

\* the same server, writing down what it answered to which request
NextMemo ==
  \/ \E f \in MemoFrames : Drop(f)
  \/ \E f \in MemoFrames : ServeNoted(f)
  \/ Tick
  \/ WhileTest
  \/ EnterSelect

SpecMemo == Init /\ [][NextMemo]_vars

\* server processes started on one host, each with or without -f
Instances == 1..MaxInstances

InitLock ==
  /\ Memory0 /\ probe = NoProbe
  /\ lockfile = FALSE
  /\ inst \in [Instances -> {[pc |-> "start", daemon |-> d] : d \in BOOLEAN}]

\* what the steps of the start-up of main() leave alone
Startup ==
  UNCHANGED <<answcache, fsdb, hostfs, now, rx_buffer, crashed, nframes, nticks,
              req, sent, outcome, last, evicted, iter, pc, terminationflag,
              probe, memo>>

\* raw_sock(): the socket is open, or main() returns 1
OpenSocket(i) ==
  /\ inst[i].pc = "start"
  /\ \E ok \in BOOLEAN :
       inst' = [inst EXCEPT ![i].pc = IF ok THEN "ready" ELSE "failed"]
  /\ UNCHANGED lockfile /\ Startup

\* lockme(): open() with O_CREAT | O_EXCL creates the file when there is
\* none; else main() returns 1
Lockme(i) ==
  /\ inst[i].pc = "ready"
  /\ inst' = [inst EXCEPT ![i].pc = IF lockfile THEN "failed" ELSE "locked"]
  /\ lockfile' = TRUE
  /\ Startup

\* daemonize() when asked for: fork() gives a child that goes on to the loop
\* (the parent calls exit(0)), or fails and main() returns 1
Daemonize(i) ==
  /\ inst[i].pc = "locked"
  /\ \E forked \in (IF inst[i].daemon THEN BOOLEAN ELSE {TRUE}) :
       inst' = [inst EXCEPT ![i].pc = IF forked THEN "serving" ELSE "failed"]
  /\ UNCHANGED lockfile /\ Startup

\* the loop ends (terminationflag, or select() failed): unlockme(), return 0
LeaveLoop(i) ==
  /\ inst[i].pc = "serving"
  /\ inst' = [inst EXCEPT ![i].pc = "done"]
  /\ lockfile' = FALSE
  /\ Startup

NextLock ==
  \/ \E i \in Instances : OpenSocket(i)
  \/ \E i \in Instances : Lockme(i)
  \/ \E i \in Instances : Daemonize(i)
  \/ \E i \in Instances : LeaveLoop(i)

SpecLock == InitLock /\ [][NextLock]_vars

\* opens of two files, one of them twice, a search that caches a listing, a
\* read through the first handle, and a frame that main() turns down
HandleFrames ==
  {OpenReq(ClientA, 7, PathSubA), OpenReq(ClientB, 8, PathB),
   OpenReq(ClientA, 8, PathB), FindFirstReq(ClientB, 7, PathSubAll),
   ReadReq(ClientA, 9, 0),
   [OpenReq(ClientA, 7, PathSubA) EXCEPT !.rlen = 59]}

\* the same server, receiving the requests that fill and use the handle table
NextHandles ==
  \/ \E f \in HandleFrames : Drop(f)
  \/ \E f \in HandleFrames : ServeNoted(f)
  \/ Tick
  \/ WhileTest
  \/ EnterSelect

SpecHandles == Init /\ [][NextHandles]_vars

PathNoDir ==
  Str(<<"bslash", "N", "O", "P", "E", "bslash", "A", ".", "T", "X", "T">>)

\* plain opens of two files, of a name that is not there, of a directory and
\* of a file in a directory that is not there, and a frame main() turns down
OpenFrames ==
  {OpenReq(ClientA, 7, PathSubAMixed), OpenReq(ClientB, 7, PathB),
   OpenReq(ClientA, 8, PathNope), OpenReq(ClientB, 8, PathSub),
   OpenReq(ClientA, 9, PathNoDir),
   [OpenReq(ClientA, 7, PathSubA) EXCEPT !.rlen = 59]}

\* the same server, receiving plain opens
NextOpen ==
  \/ \E f \in OpenFrames : Drop(f)
  \/ \E f \in OpenFrames : Serve(f)
  \/ Tick
  \/ WhileTest
  \/ EnterSelect

SpecOpen == Init /\ [][NextOpen]_vars

\* a WRITEFIL of the bytes data at the offset of the file with the id
WriteAt(src, seq, id, offset, data) ==
  Req(src, seq, 2, AL_WRITEFIL, Le32(offset) \o Le16(id) \o data)

\* an open of \SUB\A.TXT (2 bytes), its removal by the other client, a
\* WRITEFIL without data at offset 1, one of a byte at offset 3, one through
\* an id that no open has handed out, and a frame main() turns down
WriteFrames ==
  {OpenReq(ClientA, 7, PathSubA), DeleteReq(ClientB, 7, PathSubA),
   WriteAt(ClientA, 8, 0, 1, <<>>), WriteAt(ClientA, 9, 0, 3, <<7>>),
   WriteAt(ClientB, 8, 1, 0, <<7>>),
   [OpenReq(ClientA, 7, PathSubA) EXCEPT !.rlen = 59]}

\* the same server, receiving writes
NextWrite ==
  \/ \E f \in WriteFrames : Drop(f)
  \/ \E f \in WriteFrames : Serve(f)
  \/ Tick
  \/ WhileTest
  \/ EnterSelect

SpecWrite == Init /\ [][NextWrite]_vars

PathUpAll ==
  Str(<<"bslash", ".", ".", "bslash", "?", "?", "?", "?", "?", "?", "?", "?",
        ".", "?", "?", "?">>)

PathUpX == Str(<<"bslash", ".", ".", "bslash", "X">>)

PathUpY == Str(<<"bslash", ".", ".", "bslash", "Y", ".", "T", "X", "T">>)

\* requests whose paths go through '..': a search, a rename to such a path,
\* an open and a removal, and a frame main() turns down
EscapeFrames ==
  {FindFirstReq(ClientA, 7, PathUpAll), RenameReq(ClientA, 8, PathB, PathUpY),
   OpenReq(ClientB, 7, PathUpX), DeleteReq(ClientB, 8, PathUpX),
   [OpenReq(ClientA, 7, PathSubA) EXCEPT !.rlen = 59]}

\* the same server, receiving these requests
NextEscape ==
  \/ \E f \in EscapeFrames : Drop(f)
  \/ \E f \in EscapeFrames : Serve(f)
  \/ Tick
  \/ WhileTest
  \/ EnterSelect

SpecEscape == Init /\ [][NextEscape]_vars

\* requests with payloads shorter than the fields their branch reads: OPEN
\* without payload, CREATE and SPOPNFIL with 5 bytes, FINDFIRST without
\* payload, FINDNEXT with 4 bytes; and an OPEN and a FINDFIRST in full and a
\* frame main() turns down
ShortFrames ==
  {Req(ClientA, 7, 2, AL_OPEN, <<>>),
   Req(ClientA, 8, 2, AL_CREATE, <<2, 0, 0, 0, 0>>),
   Req(ClientA, 9, 2, AL_SPOPNFIL, <<2, 0, 1, 0, 0>>),
   Req(ClientB, 7, 2, AL_FINDFIRST, <<>>),
   Req(ClientB, 8, 2, AL_FINDNEXT, Le16(0) \o Le16(0)),
   OpenReq(ClientB, 9, PathB), FindFirstReq(ClientA, 6, PathSubAll),
   [OpenReq(ClientA, 7, PathSubA) EXCEPT !.rlen = 59]}

\* the same server, receiving these frames
NextShort ==
  \/ \E f \in ShortFrames : Drop(f)
  \/ \E f \in ShortFrames : Serve(f)
  \/ Tick
  \/ WhileTest
  \/ EnterSelect

SpecShort == Init /\ [][NextShort]_vars

PathRootAll ==
  Str(<<"bslash", "?", "?", "?", "?", "?", "?", "?", "?", ".", "?", "?", "?">>)

\* searches of \SUB and of the root of the drive, each with FINDNEXTs through
\* the id it gets when it comes first, and a frame main() turns down
FindFrames ==
  {FindFirstReq(ClientA, 7, PathSubAll), FindNextReq(ClientA, 8, 0, 1),
   FindFirstReq(ClientB, 7, PathRootAll), FindNextReq(ClientB, 8, 0, 1),
   FindNextReq(ClientB, 9, 1, 1),
   [OpenReq(ClientA, 7, PathSubA) EXCEPT !.rlen = 59]}

\* the same server, receiving searches
NextFind ==
  \/ \E f \in FindFrames : Drop(f)
  \/ \E f \in FindFrames : Serve(f)
  \/ Tick
  \/ WhileTest
  \/ EnterSelect

SpecFind == Init /\ [][NextFind]_vars

\* frames a server that receives interleaved searches handles
MaxSearchFrames == 5

PathRootTxt ==
  Str(<<"bslash", "?", "?", "?", "?", "?", "?", "?", "?", ".", "T", "X", "T">>)

\* the mask of a search for *.TXT as FINDFIRST derives it from the path
MaskTxt == filename2fcb(lostring(From(PathRootTxt, 1)))

FindNextMask(src, seq, id, fpos, mask) ==
  Req(src, seq, 2, AL_FINDNEXT, Le16(id) \o Le16(fpos) \o <<FAT_DIR>> \o mask)

\* two clients search the root of the drive, one for every entry and one for
\* *.TXT, and one of them searches \SUB, each passing on the cursors that the
\* answers hand out when the directory gets the first slot
SearchFrames ==
  {FindFirstReq(ClientA, 7, PathRootAll), FindNextReq(ClientA, 8, 0, 3),
   FindNextReq(ClientA, 9, 0, 4),
   FindFirstReq(ClientB, 7, PathRootTxt), FindNextMask(ClientB, 8, 0, 4, MaskTxt),
   FindFirstReq(ClientA, 4, PathSubAll), FindNextReq(ClientA, 5, 0, 1),
   FindNextReq(ClientA, 6, 0, 3)}

\* a turn of the main loop of a server that receives searches, written down
\* with its place among the frames received
ServeSearch(f) ==
  /\ ServeWithin(f, MaxSearchFrames)
  /\ memo' = IF outcome' = "reply"
             THEN memo \cup {[req |-> f, fs |-> hostfs, sent |-> sent',
                               now |-> now, db |-> fsdb, at |-> nframes']}
             ELSE memo

\* the same server, receiving the searches of two clients in any order
NextSearch ==
  \/ \E f \in SearchFrames : ServeSearch(f)
  \/ WhileTest
  \/ EnterSelect

SpecSearch == Init /\ [][NextSearch]_vars

PathNopeNew ==
  Str(<<"bslash", "N", "O", "P", "E", "bslash", "N", "E", "W">>)

PathSubNew == Str(<<"bslash", "S", "U", "B", "bslash", "N", "E", "W">>)

\* MKDIR in the root, below a directory that is not there, of a directory
\* that is there and below it, an RMDIR, and a frame main() turns down
MkdirFrames ==
  {Req(ClientA, 7, 2, AL_MKDIR, PathNew), Req(ClientA, 8, 2, AL_MKDIR, PathNopeNew),
   Req(ClientB, 7, 2, AL_MKDIR, PathSub), Req(ClientB, 8, 2, AL_MKDIR, PathSubNew),
   Req(ClientA, 9, 2, AL_RMDIR, PathNew),
   [OpenReq(ClientA, 7, PathSubA) EXCEPT !.rlen = 59]}

\* the same server, receiving these requests
NextMkdir ==
  \/ \E f \in MkdirFrames : Drop(f)
  \/ \E f \in MkdirFrames : Serve(f)
  \/ Tick
  \/ WhileTest
  \/ EnterSelect

SpecMkdir == Init /\ [][NextMkdir]_vars

\* the frames that arrive while the server is being told to terminate
TermFrames ==
  {Req(ClientA, 7, 2, AL_DISKSPACE, <<>>), Req(ClientA, 8, 2, AL_DISKSPACE, <<>>),
   Req(ClientB, 7, 2, AL_MKDIR, PathNew),
   [Req(ClientA, 7, 2, AL_DISKSPACE, <<>>) EXCEPT !.rlen = 59]}

\* the same server with the termination signals delivered at any point
NextTerm ==
  \/ \E f \in TermFrames : Drop(f)
  \/ \E f \in TermFrames : Serve(f)
  \/ Tick
  \/ WhileTest
  \/ EnterSelect
  \/ sigcatcher

\* main() goes on by itself from the test of the while and into select();
\* nothing makes a frame arrive
SpecTerm ==
  Init /\ [][NextTerm]_vars /\ WF_vars(WhileTest) /\ WF_vars(EnterSelect)

----------------------------------------------------------------------------
(* Properties of the reply cache and of the frames sent                    *)

\* this step is a turn of the main loop that went through process() and
\* came back
Turned == nframes' = nframes + 1 /\ outcome' \in {"hit", "reply", "ignore"}

\* the last turn of the main loop went through process() and came back
HasTurned == outcome \in {"hit", "reply", "ignore"}

\* the cache entry main() picks for the client of the frame f
EntryOf(cache, f) == cache[findcacheentry(cache, f.src)]

\* two answer frames agree in every byte but the checksum (54..55) and the
\* checksum flag (bit 7 of byte 56)
SameButCksum(a, b) ==
  [a EXCEPT !.cksum = 0, !.proto = a.proto % 128] =
  [b EXCEPT !.cksum = 0, !.proto = b.proto % 128]

\* C1: when a client's request carries the sequence byte of its previous
\* request and that one was answered, the frame sent now is byte for byte
\* the frame sent then, whatever the other header bytes of the request are
C1_RetransmitByteIdentical ==
  [][(Turned /\ last[req'.src].seq = req'.seq /\ last[req'.src].sent.len > 0)
       => sent' = last[req'.src].sent]_vars

\* C2: a request whose source MAC and sequence byte match the client's cache
\* entry with a stored length above 0 is answered with the stored frame (the
\* stored length, and every stored byte outside the checksum field and
\* flag, which main() writes on each send), and changes neither the handle
\* table nor the host file system
C2_HitRetransmitsAndTouchesNothing ==
  [][(Turned /\ EntryOf(answcache, req').frame.seq = req'.seq
             /\ EntryOf(answcache, req').frame.dst = req'.src
             /\ EntryOf(answcache, req').len > 0)
       => /\ fsdb' = fsdb
          /\ hostfs' = hostfs
          /\ sent'.len = EntryOf(answcache, req').len
          /\ SameButCksum(sent'.frame, EntryOf(answcache, req').frame)]_vars

\* C2 happens: a MKDIR was answered from the cache
C2_Witness == outcome = "hit" /\ req.al = AL_MKDIR /\ sent.len > 0

\* C3: an INSTALLCHK request on a mapped drive that misses the cache is
\* answered with a 60-byte frame, AX = 0, from the server to the client
C3_InstallchkAnswered ==
  (outcome \in {"reply", "ignore", "crash"} /\ req.al = AL_INSTALLCHK
     /\ req.drv = 2 /\ req.rlen = 60)
    => /\ sent.len = 60
       /\ AxOf(sent.frame) = 0
       /\ sent.frame.dst = req.src
       /\ sent.frame.src = mymac

\* the drive of the frame f is outside C: - Z:, or has no root
BadDrive(f) ==
  \/ f.drv % 32 < 2
  \/ f.drv % 32 > 25
  \/ rootarray[f.drv % 32] = NULL

\* C7 as stated: a request on an invalid or unmapped drive makes the server
\* send nothing, whatever the cache holds
C7_BadDriveNeverAnswered ==
  (HasTurned /\ BadDrive(req)) => sent.len = 0

\* C7: a request on an invalid or unmapped drive that misses the reply cache
\* makes the server send nothing
C7_BadDriveMissNotAnswered ==
  (outcome \in {"reply", "ignore"} /\ BadDrive(req))
    => (sent.len = 0 /\ outcome = "ignore")

\* C7 happens: a request on the unmapped drive D: was ignored
C7_Witness == outcome = "ignore" /\ req.drv = 3 /\ sent.len = 0

\* the opcodes process() has a branch for
Dispatched ==
  {AL_DISKSPACE, AL_READFIL, AL_WRITEFIL, AL_LOCKFIL, AL_UNLOCKFIL,
   AL_FINDFIRST, AL_FINDNEXT, AL_MKDIR, AL_RMDIR, AL_CHDIR, AL_CLSFIL,
   AL_SETATTR, AL_GETATTR, AL_RENAME, AL_DELETE, AL_OPEN, AL_CREATE,
   AL_SPOPNFIL, AL_SKFMEND}

\* the frame f names no opcode of process(), or one with a payload length
\* that its branch turns down
Unrecognized(f) ==
  \/ f.al \notin Dispatched
  \/ f.al = AL_READFIL /\ EffLen(f) - 60 # 8
  \/ f.al = AL_WRITEFIL /\ EffLen(f) - 60 < 6
  \/ f.al = AL_SETATTR /\ EffLen(f) - 60 <= 1
  \/ f.al = AL_GETATTR /\ EffLen(f) - 60 <= 0
  \/ f.al = AL_RENAME /\ EffLen(f) - 60 <= 2
  \/ f.al = AL_SKFMEND /\ EffLen(f) - 60 # 6

\* C8 as stated: a request with an unrecognized opcode or payload length is
\* not answered and leaves the client's stored length 0
C8_UnrecognizedNeverAnswered ==
  (HasTurned /\ ~BadDrive(req) /\ Unrecognized(req))
    => (sent.len = 0 /\ EntryOf(answcache, req).len = 0)

\* C8: a request with an unrecognized opcode or payload length that misses
\* the reply cache is not answered and leaves the client's stored length 0,
\* so that the same frame sent again is no cache hit
C8_UnrecognizedMissPoisons ==
  (outcome \in {"reply", "ignore"} /\ ~BadDrive(req) /\ Unrecognized(req))
    => /\ sent.len = 0
       /\ outcome = "ignore"
       /\ EntryOf(answcache, req).len = 0
       /\ ~(/\ EntryOf(answcache, req).frame.seq = req.seq
            /\ EntryOf(answcache, req).frame.dst = req.src
            /\ EntryOf(answcache, req).len > 0)

\* C8 happens: an unknown opcode was ignored by a client whose previous
\* request had been answered
C8_Witness ==
  /\ outcome = "ignore" /\ req.al = AL_UNKNOWN
  /\ EntryOf(answcache, req).frame.dst = req.src
  /\ EntryOf(answcache, req).frame.seq = req.seq
  /\ EntryOf(answcache, req).timestamp > 0

\* the frame f fails a validation step of the receive path
Invalid(f) ==
  \/ f.rlen < 60
  \/ f.dst # mymac /\ f.dst # BcastMac
  \/ f.etype # ETHERTYPE_DFS
  \/ f.proto % 128 # PROTOVER
  \/ f.elen # 0 /\ (f.elen < 60 \/ f.elen > f.rlen)
  \/ /\ f.proto \div 128 = 1
     /\ bsdsum(Bytes56(f.proto, f.seq, f.drv, f.al, f.payload, EffLen(f)))
          # f.cksum

\* C9: a frame that fails a validation step makes the server send nothing
\* and leaves the reply cache and the handle table as they were
C9_InvalidFrameDropped ==
  [][(nframes' = nframes + 1 /\ Invalid(req'))
       => (sent'.len = 0 /\ outcome' = "drop"
           /\ answcache' = answcache /\ fsdb' = fsdb)]_vars

\* C9 happens: a frame with a wrong checksum was dropped while the cache held
\* an answer
C9_Witness ==
  /\ outcome = "drop" /\ req.rlen >= 60 /\ req.proto \div 128 = 1
  /\ \E i \in DOMAIN answcache : answcache[i].len > 0

\* what every frame sent has: the client as destination, the server as
\* source, the request's ethertype and sequence byte, its own length in
\* bytes 52..53 and the request's checksum flag
ReplyFraming ==
  /\ sent.frame.dst = req.src
  /\ sent.frame.src = mymac
  /\ sent.frame.etype = req.etype
  /\ sent.frame.seq = req.seq
  /\ sent.frame.elen = sent.len
  /\ sent.frame.proto \div 128 = req.proto \div 128

\* C10 as stated: every frame sent has the framing above and echoes bytes
\* 14..51 of the request
C10_EveryReplyEchoesRequest ==
  sent.len > 0 => (ReplyFraming /\ sent.frame.pad = req.pad)

\* C10: every frame sent has the framing above; a frame built by the
\* dispatcher echoes bytes 14..51 of the request, one sent from the cache
\* those of the request that filled the cache
C10_ReplyFraming ==
  sent.len > 0
    => /\ ReplyFraming
       /\ outcome = "reply" => sent.frame.pad = req.pad
       /\ outcome = "hit" => sent.frame.pad = EntryOf(answcache, req).frame.pad

\* C10 happens: a request to the broadcast address was answered by the
\* dispatcher
C10_Witness == outcome = "reply" /\ req.dst = BcastMac /\ sent.len > 0

----------------------------------------------------------------------------
(* Properties of the handle table and of the directory search              *)

\* the opcodes that take a 16-bit id from the wire
IdOpcodes == {AL_READFIL, AL_WRITEFIL, AL_SKFMEND, AL_FINDNEXT}

\* the id in the payload rb of a request with such an opcode
IdOf(al, rb) == IF al = AL_FINDNEXT THEN Rd16(rb, 0) ELSE Rd16(rb, 4)

\* the DOS error codes: file not found, path not found, access denied, no
\* more files
DosErrors == {2, 3, 5, 18}

\* C4: a READFIL, WRITEFIL, SKFMEND or FINDNEXT that reaches the dispatcher
\* with an id whose handle slot is empty is answered with a DOS error code,
\* and the server lives on
C4_EmptySlotAnswered ==
  [][(/\ nframes' = nframes + 1
      /\ outcome' \in {"reply", "ignore", "crash"}
      /\ req'.al \in IdOpcodes /\ ~BadDrive(req') /\ ~Unrecognized(req')
      /\ sstoitem(fsdb, SlotOf(IdOf(req'.al, rx_buffer'))) = NULL)
       => /\ ~crashed'
          /\ outcome' = "reply"
          /\ AxOf(sent'.frame) \in DosErrors]_vars

\* C5: a READFIL, WRITEFIL or SKFMEND on an id whose slot was evicted, and
\* now holds another path or none, is answered with an error code
C5_EvictedIdFails ==
  (/\ outcome = "reply"
   /\ req.al \in {AL_READFIL, AL_WRITEFIL, AL_SKFMEND}
   /\ \E e \in evicted : /\ e.id = IdOf(req.al, req.payload)
                         /\ fsdb[e.id].name # e.name)
    => AxOf(sent.frame) # 0

\* the 11-byte names of the entries of the directory it.dir that pass the
\* mask and the attribute filter of the search it, in listing order
Matching(it) ==
  Let(SelectSeq(gendirlist(hostfs, it.dir, 0).dirlist,
                LAMBDA e : findfileAccepts(e, it.mask, it.attr,
                                           Flags(it.isroot, FALSE))),
      LAMBDA l : [k \in 1..Len(l) |-> [i \in 1..11 |-> At(l[k].fcbname, i - 1)]])

\* C6: a search that went from its FINDFIRST through FINDNEXTs passing the
\* cursor on to AX = 18, over a directory that did not change, has returned
\* each matching entry once, in listing order
C6_SearchReturnsEachOnce ==
  (iter.on /\ iter.done) => iter.seen = Matching(iter)

----------------------------------------------------------------------------
(* Termination                                                             *)

\* C11: once the termination flag is set, main() leaves the loop and removes
\* the lock file, even if no frame arrives any more
C11_SignalLeadsToExit ==
  terminationflag ~> (pc = "exited" /\ ~lockfile)

----------------------------------------------------------------------------
(* Properties of the requests on paths                                     *)

\* the host directory that the directory part of the DOS path resolves to
HostDirOf(path) ==
  shorttolong(hostfs, dospath(RootC, explodepath(path, Len(path)).dir), RootC).dst

\* the FCB mask of the last component of the DOS path
MaskOf(path) == filename2fcb(lostring(explodepath(path, Len(path)).file))

\* the non-directory entries of the host directory dir whose FCB name matches
\* the mask
MatchingFiles(dir, mask) ==
  Let(ReadDir(hostfs, Namei(hostfs, dir).path), LAMBDA ents :
    {k \in 1..Len(ents) :
       ~ents[k].dir /\ matchfile2mask(mask, filename2fcb(ents[k].name)) = 0})

\* C12: after a DELETE with a wildcard pattern was answered, AX is 0 and the
\* resolved directory holds no non-directory entry that matches the mask
C12_WildcardDeleteRemovesAll ==
  (outcome = "reply" /\ req.al = AL_DELETE
     /\ \E k \in 1..Len(req.payload) : req.payload[k] = QMARK)
    => /\ AxOf(sent.frame) = 0
       /\ MatchingFiles(HostDirOf(req.payload), MaskOf(req.payload)) = {}

\* the host path that the DOS path resolves to, and whether it does
HostPathOf(path) == shorttolong(hostfs, dospath(RootC, path), RootC)

\* C13: a GETATTR for an existing regular file (the drive is not FAT) is
\* answered AX = 0 with the DOS time of its mtime, its size and the
\* attribute byte 0x20, in whatever letter case the path is written
C13_GetattrOfFile ==
  (outcome = "reply" /\ req.al = AL_GETATTR /\ HostPathOf(req.payload).rc = 0
     /\ ~NodeOf(hostfs, HostPathOf(req.payload).dst).dir)
    => /\ AxOf(sent.frame) = 0
       /\ sent.frame.payload =
            Le32(time2dos(NodeOf(hostfs, HostPathOf(req.payload).dst).mtime))
            \o Le32(Len(NodeOf(hostfs, HostPathOf(req.payload).dst).data))
            \o <<32>>

\* the source and the destination path of the RENAME request f
RenSrc(f) == Take(From(f.payload, 1), At(f.payload, 0))

RenDst(f) == From(f.payload, 1 + At(f.payload, 0))

\* a RENAME went through its branch of process() and was answered
RenameTurn ==
  Turned /\ outcome' = "reply" /\ req'.al = AL_RENAME /\ Len(req'.payload) > 2

\* C14: a RENAME whose source path does not resolve is answered AX = 2 and
\* leaves the host file system as it was
C14_RenameUnresolvedSource ==
  [][(RenameTurn /\ HostPathOf(RenSrc(req')).rc # 0)
       => AxOf(sent'.frame) = 2 /\ hostfs' = hostfs]_vars

\* no directory of fs holds two entries with the same FCB name
NoFcbTwins(fs) ==
  \A p, q \in DOMAIN fs :
    (p # q /\ p # <<>> /\ q # <<>> /\ Parent(p) = Parent(q))
      => filename2fcb(p[Len(p)]) # filename2fcb(q[Len(q)])

\* C15: a RENAME whose destination resolves to an entry of the drive is
\* answered AX = 5 and changes nothing, and a RENAME answered AX = 0 leaves
\* no two entries with the same FCB name in one directory
C15_RenameExistingDestination ==
  [][RenameTurn
       => /\ (HostPathOf(RenSrc(req')).rc = 0 /\ HostPathOf(RenDst(req')).rc = 0)
               => AxOf(sent'.frame) = 5 /\ hostfs' = hostfs
          /\ (AxOf(sent'.frame) = 0 /\ NoFcbTwins(hostfs))
               => NoFcbTwins(hostfs')]_vars

\* the host path an OPEN / CREATE / SPOPNFIL request f is about: the resolved
\* path when there is one, else the name as sent, in the resolved directory
OpenTargetIn(fs, path) ==
  IF shorttolong(fs, dospath(RootC, path), RootC).rc = 0
  THEN shorttolong(fs, dospath(RootC, path), RootC).dst
  ELSE shorttolong(fs, dospath(RootC, explodepath(path, Len(path)).dir), RootC).dst
         \o <<SLASH>> \o explodepath(path, Len(path)).file

OpenTarget(f) == OpenTargetIn(hostfs, From(f.payload, 6))

\* the action word of the SPOPNFIL request f and the spopres word of an answer
ActionOf(f) == Rd16(f.payload, 2)

SpopResOf(frame) == Rd16(frame.payload, 22)

\* the regular files of fs whose content is not what it is in gs
Rewritten(fs, gs) ==
  {p \in DOMAIN fs : ~fs[p].dir /\ (p \notin DOMAIN gs \/ gs[p].data # fs[p].data)}

\* C16: an answered SPOPNFIL on an existing regular file opens it for low
\* nibble 1 (spopres 1), truncates it for low nibble 2 (spopres 3) and fails
\* otherwise; on a missing file it creates it for high nibble 0x10 (spopres 2)
\* and fails otherwise; on a directory it fails.  No SPOPNFIL adds a file
\* unless the high nibble is 0x10, none rewrites one unless the low nibble is 2
C16_SpopnfilDecodesAction ==
  [][(Turned /\ req'.al = AL_SPOPNFIL)
       => \A t \in {OpenTarget(req')} : \A action \in {ActionOf(req')} :
          /\ (action \div 16) % 16 # 1 => DOMAIN hostfs' \subseteq DOMAIN hostfs
          /\ action % 16 # 2 => Rewritten(hostfs, hostfs') = {}
          /\ outcome' = "reply" =>
               IF ~Exists(hostfs, t)
               THEN IF (action \div 16) % 16 = 1
                    THEN /\ AxOf(sent'.frame) = 0 /\ SpopResOf(sent'.frame) = 2
                         /\ Exists(hostfs', t) /\ NodeOf(hostfs', t).data = <<>>
                    ELSE AxOf(sent'.frame) = 2 /\ hostfs' = hostfs
               ELSE IF NodeOf(hostfs, t).dir
               THEN AxOf(sent'.frame) = 2 /\ hostfs' = hostfs
               ELSE IF action % 16 = 1
               THEN /\ AxOf(sent'.frame) = 0 /\ SpopResOf(sent'.frame) = 1
                    /\ hostfs' = hostfs
               ELSE IF action % 16 = 2
               THEN /\ AxOf(sent'.frame) = 0 /\ SpopResOf(sent'.frame) = 3
                    /\ NodeOf(hostfs', t).data = <<>>
               ELSE AxOf(sent'.frame) = 2 /\ hostfs' = hostfs]_vars

\* C16 happens: an extended open truncated an existing file
C16_Witness ==
  /\ outcome = "reply" /\ req.al = AL_SPOPNFIL /\ ActionOf(req) % 16 = 2
  /\ AxOf(sent.frame) = 0 /\ SpopResOf(sent.frame) = 3

-----------------------------------------------------------------------------
(* Properties of the arithmetic of DISKSPACE and SKFMEND                   *)

\* C17: DISKSPACE answers AX = 1, 32768 bytes per sector, and for the total
\* and the free space min(bytes, 2^31 - 1) >> 15 clusters, which is the number
\* of whole 32 KiB units limited to 65535; the drive of 10 GiB with 4 GiB
\* free gives 65535 and 65535
C17_DiskspaceClamped ==
  (probe.op = "diskspace" /\ probe.done)
    => /\ probe.ax = 1
       /\ Len(probe.out) = 6
       /\ Rd16(probe.out, 0) = Min(probe.a.hi, 65535)
       /\ Rd16(probe.out, 2) = 32768
       /\ Rd16(probe.out, 4) = Min(probe.b.hi, 65535)
       /\ (probe.a.hi = 327680 /\ probe.b.hi = 131072)
            => Rd16(probe.out, 0) = 65535 /\ Rd16(probe.out, 4) = 65535

\* C17 happens: the answer for the drive of 10 GiB with 4 GiB free
C17_Witness ==
  /\ probe.op = "diskspace" /\ probe.done
  /\ probe.a = [hi |-> 327680, lo |-> 0] /\ probe.b = [hi |-> 131072, lo |-> 0]
  /\ probe.out = <<255, 255, 0, 128, 255, 255>>

WordGe(x, y) == x.hi > y.hi \/ (x.hi = y.hi /\ x.lo >= y.lo)

\* x - y for x >= y
WordSub(x, y) ==
  [hi |-> x.hi - y.hi - (IF x.lo < y.lo THEN 1 ELSE 0),
   lo |-> (x.lo - y.lo + 65536) % 65536]

\* the absolute value of the negative word x
WordAbs(x) ==
  [hi |-> 65535 - x.hi + (IF x.lo = 0 THEN 1 ELSE 0), lo |-> (65536 - x.lo) % 65536]

\* max(0, fsize + min(0, offs)) for the signed word offs
SeekFromEnd(offs, fsize) ==
  IF ~WordNegative(offs) THEN fsize
  ELSE IF WordGe(fsize, WordAbs(offs)) THEN WordSub(fsize, WordAbs(offs))
  ELSE Word(0)

\* C18: SKFMEND on an open file answers max(0, fileSize + min(0, offset)),
\* for every signed 32-bit offset and every file size
C18_SeekFromEnd ==
  (probe.op = "skfmend" /\ probe.done)
    => probe.out = Le16(SeekFromEnd(probe.a, probe.b).lo)
                     \o Le16(SeekFromEnd(probe.a, probe.b).hi)

-----------------------------------------------------------------------------
(* Properties of the server as a whole                                     *)

\* C19: every frame sent is at most 1520 bytes long, and the cache entry of
\* its client holds the length that was sent
C19_ReplyFitsFrame ==
  (outcome \in {"reply", "hit"} /\ sent.len > 0)
    => sent.len <= FRAMESZ /\ EntryOf(answcache, req).len = sent.len

\* C20: the answer of process() to a request depends on the request and on
\* the host file system it meets only: whenever the same request met the
\* same host file system, the same frame was sent
C20_ReplyDependsOnRequestAndFs ==
  \A x, y \in memo : (x.req = y.req /\ x.fs = y.fs) => x.sent = y.sent

-----------------------------------------------------------------------------
(* Properties of the requests on handles                                   *)

\* the requests that the protocol answers without doing anything
NoOps == {AL_CLSFIL, AL_CMMTFIL, AL_LOCKFIL, AL_UNLOCKFIL}

\* C21: a CLSFIL, CMMTFIL, LOCKFIL or UNLOCKFIL on a mapped drive that misses
\* the reply cache is answered with 60 bytes and AX = 0, and leaves the handle
\* table and the host file system as they were
C21_NoOpsAnswered ==
  [][(Turned /\ outcome' \in {"reply", "ignore"} /\ req'.al \in NoOps
             /\ ~BadDrive(req'))
       => /\ sent'.len = 60 /\ AxOf(sent'.frame) = 0
          /\ fsdb' = fsdb /\ hostfs' = hostfs]_vars

-----------------------------------------------------------------------------
(* Properties of the path resolver                                         *)

\* the components of the host path dst below the root
HostComponents(dst) == Tokens(From(dst, Len(RootC)), SLASH)

\* the components of the host path dst are, one for one, entries of fs whose
\* FCB name is that of the component of the DOS path
ComponentsMatch(fs, path, dst) ==
  Let(Tokens(path, BSLASH), LAMBDA asked :
  Let(HostComponents(dst), LAMBDA got :
    /\ Len(got) = Len(asked)
    /\ \A k \in 1..Len(got) :
         /\ (Namei(fs, RootC).path \o SubSeq(got, 1, k)) \in DOMAIN fs
         /\ CStr(filename2fcb(got[k])) = CStr(filename2fcb(asked[k]))))

\* C22: two DOS paths that differ in letter case only resolve to the same
\* result code and the same host path, and a resolved host path names, one
\* component after the other, existing entries whose FCB name is that of the
\* component asked for
C22_ResolveIgnoresCase ==
  (probe.op = "resolve" /\ probe.done)
    => /\ probe.res = probe.res2
       /\ probe.res.rc = 0 => ComponentsMatch(probe.fs, probe.path, probe.res.dst)
       /\ probe.res2.rc = 0 => ComponentsMatch(probe.fs, probe.alt, probe.res2.dst)

\* C22 happens: \SUB\A.TXT and \suB\a.Txt both resolve to /r/Sub/a.txt
C22_Witness ==
  /\ probe.op = "resolve" /\ probe.done
  /\ probe.path = PathSubA /\ probe.alt = PathSubAMixed
  /\ probe.res.rc = 0 /\ probe.res2.rc = 0
  /\ HostComponents(probe.res.dst) = <<NameSub, NameA>>

-----------------------------------------------------------------------------
(* Properties of the lock file                                             *)

\* the instances past lockme() and not yet out of main()
Holders == {i \in Instances : inst[i].pc \in {"locked", "serving"}}

\* C23: at most one instance holds the lock file at a time; lockme() succeeds
\* only when there was no lock file, an instance that fails to acquire it
\* leaves it in place, and a holder that leaves main() has removed it
C23_LockfileExclusive ==
  [][/\ Cardinality(Holders') <= 1
     /\ \A i \in Instances :
          /\ (inst[i].pc = "ready" /\ inst'[i].pc = "locked") => ~lockfile
          /\ (inst[i].pc = "ready" /\ inst'[i].pc = "failed") => lockfile'
          /\ (i \in Holders /\ inst'[i].pc \in {"done", "failed"}) => ~lockfile']_vars

-----------------------------------------------------------------------------
(* Properties of the drive table                                           *)

\* C24: a command line of more than 24 paths is turned down; one that is
\* accepted has its paths, in order, at the indices 2 and up of root[], the
\* other entries empty, and no store at an index outside 2..25
C24_DriveTableBounds ==
  (probe.op = "load" /\ probe.done)
    => /\ Len(probe.args) > 24 => probe.load.rc = "usage"
       /\ probe.load.rc = "run" =>
            /\ probe.load.written \subseteq 2..25
            /\ \A d \in 0..25 :
                 probe.load.root[d] =
                   IF d >= 2 /\ d - 2 < Len(probe.args)
                   THEN realpath(probe.fs, probe.args[d - 1]).path ELSE NULL

-----------------------------------------------------------------------------
(* Properties of the handle table                                          *)

\* the slots that getitemss() scans
Slots == 0..(MaxSlots - 1)

\* a turn in which process() called getitemss(): an OPEN that succeeded, or a
\* FINDFIRST that was answered
InternTurn ==
  /\ Turned /\ outcome' = "reply"
  /\ \/ req'.al = AL_OPEN /\ AxOf(sent'.frame) = 0
     \/ req'.al = AL_FINDFIRST

\* the path that the request f hands to getitemss(), and the id in its answer
InternedPath(f) ==
  IF f.al = AL_OPEN THEN OpenTarget(f)
  ELSE shorttolong(hostfs,
                   dospath(RootC, explodepath(From(f.payload, 1),
                                              Len(f.payload) - 1).dir),
                   RootC).dst

InternedId(frame) == Rd16(frame.payload, 20)

\* C25: no two occupied slots of the handle table hold the same path, and
\* getitemss() for a path that a slot holds returns the id of that slot
C25_OneSlotPerPath ==
  [][/\ \A i, j \in Slots :
          (i # j /\ fsdb'[i].name # NULL) => fsdb'[i].name # fsdb'[j].name
     /\ InternTurn =>
          \A t \in {InternedPath(req')} : \A i \in Slots :
            fsdb[i].name = t
              => InternedId(sent'.frame) = i /\ fsdb'[i].name = t]_vars

\* C25 happens: client A opened the file that client B holds open, and got
\* the id that B got
C25_Witness ==
  /\ outcome = "reply" /\ req = OpenReq(ClientA, 8, PathB) /\ AxOf(sent.frame) = 0
  /\ last[ClientB].seq = 8 /\ last[ClientB].sent.len > 60
  /\ AxOf(last[ClientB].sent.frame) = 0
  /\ InternedId(sent.frame) = InternedId(last[ClientB].sent.frame)
  /\ fsdb[InternedId(sent.frame)].name # NULL

\* slot i of the table db holds a path that was stamped within the last
\* IdleSecs seconds before t
Fresh(db, i, t) == db[i].name # NULL /\ (t - db[i].lastused) <= IdleSecs

\* C26: when getitemss() registers a path that no slot holds, then, if every
\* slot holds a path stamped within the last 3600 seconds, the path replaces
\* one whose lastused is minimal among all slots; and if some slot is free or
\* idle, every slot stamped within the last 3600 seconds keeps its path and
\* its cached listing
C26_ReclaimsLeastRecentlyUsed ==
  [][InternTurn =>
       \A t \in {InternedPath(req')} :
         (\A i \in Slots : fsdb[i].name # t) =>
           \A j \in {InternedId(sent'.frame)} :
             /\ j \in Slots /\ fsdb'[j].name = t
             /\ (\A i \in Slots : Fresh(fsdb, i, now))
                  => /\ \A i \in Slots : fsdb[j].lastused <= fsdb[i].lastused
                     /\ \A i \in Slots \ {j} : fsdb'[i] = fsdb[i]
             /\ (\E i \in Slots : ~Fresh(fsdb, i, now))
                  => /\ ~Fresh(fsdb, j, now)
                     /\ \A i \in Slots :
                          Fresh(fsdb, i, now)
                            => /\ fsdb'[i].name = fsdb[i].name
                               /\ fsdb'[i].dirlist = fsdb[i].dirlist]_vars

\* C26 happens: with no second gone by since the start, a path was registered
\* in a slot that held another path, so every slot was in use and fresh
C26_Witness ==
  /\ outcome = "reply" /\ now = T0
  /\ \E e \in evicted :
       /\ e.id \in Slots
       /\ fsdb[e.id].name # NULL /\ fsdb[e.id].name # e.name
       /\ fsdb[e.id].lastused = now

\* the answered requests that reached the file of slot i through its id: the
\* request names the slot, the slot held the path then that it holds now, and
\* the answer was a success
AccessesById(i) ==
  {m \in memo : /\ m.req.al \in IdOpcodes
                /\ IdOf(m.req.al, m.req.payload) = i
                /\ m.db[i].name = fsdb[i].name
                /\ AxOf(m.sent.frame) = 0}

\* C27: a slot that was read, written or searched through its id within the
\* last 3600 seconds is never cleared by the idle sweep of getitemss()
C27_AccessByIdKeepsSlot ==
  [][\A i \in Slots :
       (/\ fsdb[i].name # NULL
        /\ fsdb'[i].name # fsdb[i].name
        /\ (now - fsdb[i].lastused) > IdleSecs)
         => \A m \in AccessesById(i) : (now - m.now) > IdleSecs]_vars

-----------------------------------------------------------------------------
(* Properties of the reply cache: whose entry a turn overwrites            *)

CacheSlots == 0..(ANSWCACHESZ - 1)

\* the entry i of the cache has been written since the start
InUse(cache, i) == cache[i] # [frame |-> ZeroFrame, timestamp |-> 0, len |-> 0]

\* C28: a turn for a frame of client Y changes an entry that holds the MAC of
\* another client X only if no entry holds the MAC of Y, all 16 entries are
\* in use, the entry of X has the oldest timestamp and process() answered
\* the request of Y; a turn that ignores the request of Y changes no entry
\* of another client
C28_ForeignSlotOverwrittenOnlyWhenFull ==
  [][Turned =>
       \A i \in CacheSlots :
         (/\ answcache[i].frame.dst \in Clients \ {req'.src}
          /\ answcache'[i] # answcache[i])
           => /\ \A j \in CacheSlots : answcache[j].frame.dst # req'.src
              /\ \A j \in CacheSlots : InUse(answcache, j)
              /\ \A j \in CacheSlots :
                   answcache[i].timestamp <= answcache[j].timestamp
              /\ outcome' = "reply"]_vars

-----------------------------------------------------------------------------
(* Properties of OPEN and WRITEFIL                                         *)

\* the directory part of the DOS path resolves to a host directory
DirResolves(path) ==
  Let(shorttolong(hostfs, dospath(RootC, explodepath(path, Len(path)).dir), RootC),
      LAMBDA sld : sld.rc = 0 /\ IsDir(hostfs, Namei(hostfs, sld.dst).path))

\* C29: a plain OPEN that reaches process() changes no file and is answered:
\* with AX = 3 when the directory of the path does not resolve, with AX = 2
\* when the file is not there or is a directory, and else with AX = 0 and a
\* file id other than 0xFFFF whose slot holds the resolved host path
C29_OpenOnlyOpens ==
  [][(Turned /\ outcome' # "hit" /\ req'.al = AL_OPEN)
       => \A path \in {From(req'.payload, 6)} : \A t \in {OpenTarget(req')} :
          /\ hostfs' = hostfs
          /\ outcome' = "reply"
          /\ IF ~DirResolves(path)
             THEN AxOf(sent'.frame) = 3 /\ fsdb' = fsdb
             ELSE IF ~Exists(hostfs, t) \/ NodeOf(hostfs, t).dir
             THEN AxOf(sent'.frame) = 2 /\ fsdb' = fsdb
             ELSE /\ AxOf(sent'.frame) = 0
                  /\ shorttolong(hostfs, dospath(RootC, path), RootC).rc = 0
                  /\ InternedId(sent'.frame) # 65535
                  /\ InternedId(sent'.frame) \in Slots
                  /\ fsdb'[InternedId(sent'.frame)].name = t]_vars

\* C29 happens: \suB\a.Txt was opened and its slot holds /r/Sub/a.txt, after
\* an OPEN of a missing file and one below a missing directory were refused
C29_Witness ==
  /\ outcome = "reply" /\ req = OpenReq(ClientA, 7, PathSubAMixed)
  /\ AxOf(sent.frame) = 0
  /\ fsdb[InternedId(sent.frame)].name = PathString(<<NameR, NameSub, NameA>>)
  /\ last[ClientB].seq = 8 /\ AxOf(last[ClientB].sent.frame) = 2

\* the file system gs differs from fs in the regular file name only, whose
\* content is new
OnlyContentOf(fs, gs, name, new) ==
  /\ Exists(fs, name) /\ ~NodeOf(fs, name).dir
  /\ DOMAIN gs = DOMAIN fs
  /\ \A q \in DOMAIN fs \ {Namei(fs, name).path} : gs[q] = fs[q]
  /\ NodeOf(gs, name).data = new

\* the content old with the bytes data put at the offset off: what lies
\* before and behind them stays, a gap behind the end of old reads as zeros
Patched(old, off, data) ==
  [k \in 1..(IF off + Len(data) > Len(old) THEN off + Len(data) ELSE Len(old)) |->
     IF k > off /\ k <= off + Len(data) THEN data[k - off] ELSE At(old, k - 1)]

\* C30: a WRITEFIL through an id whose slot holds a path, without data, is
\* answered AX = 0 and 0 bytes written, and the file then has the length of
\* the offset; with data it is answered AX = 0 and the count of the bytes,
\* which then lie at the offset with every other byte as before (or the host
\* refuses the write: AX = 5 and nothing changes); through an id whose slot
\* is empty it is answered AX = 5 and nothing changes
C30_WritefilWritesOrTruncates ==
  [][(Turned /\ outcome' # "hit" /\ req'.al = AL_WRITEFIL
      /\ Len(req'.payload) >= 6 /\ Rd16(req'.payload, 4) \in Slots)
       => \A id \in {Rd16(req'.payload, 4)} :
          \A off \in {Rd32(req'.payload, 0)} :
          \A data \in {From(req'.payload, 6)} :
          /\ outcome' = "reply" /\ fsdb' = fsdb
          /\ IF fsdb[id].name = NULL
             THEN AxOf(sent'.frame) = 5 /\ hostfs' = hostfs
             ELSE IF data = <<>>
             THEN /\ AxOf(sent'.frame) = 0 /\ Rd16(sent'.frame.payload, 0) = 0
                  /\ Exists(hostfs', fsdb[id].name)
                  /\ Len(NodeOf(hostfs', fsdb[id].name).data) = off
             ELSE \/ /\ AxOf(sent'.frame) = 0
                     /\ Rd16(sent'.frame.payload, 0) = Len(data)
                     /\ OnlyContentOf(hostfs, hostfs', fsdb[id].name,
                                      Patched(NodeOf(hostfs, fsdb[id].name).data,
                                              off, data))
                  \/ AxOf(sent'.frame) = 5 /\ hostfs' = hostfs]_vars

\* through an id whose slot holds the path of a regular file that is still
\* there, every WRITEFIL is answered AX = 0 and does what the request says
WritefilOnExistingFile ==
  [][(Turned /\ outcome' # "hit" /\ req'.al = AL_WRITEFIL
      /\ Len(req'.payload) >= 6 /\ Rd16(req'.payload, 4) \in Slots)
       => \A id \in {Rd16(req'.payload, 4)} :
          \A off \in {Rd32(req'.payload, 0)} :
          \A data \in {From(req'.payload, 6)} :
          (fsdb[id].name # NULL /\ Exists(hostfs, fsdb[id].name))
            => /\ AxOf(sent'.frame) = 0
               /\ Rd16(sent'.frame.payload, 0) = Len(data)
               /\ IF data = <<>>
                  THEN OnlyContentOf(hostfs, hostfs', fsdb[id].name,
                         Take(Patched(NodeOf(hostfs, fsdb[id].name).data, off, <<>>)
                              \o ZeroFill(off), off))
                  ELSE OnlyContentOf(hostfs, hostfs', fsdb[id].name,
                         Patched(NodeOf(hostfs, fsdb[id].name).data, off, data))]_vars

-----------------------------------------------------------------------------
(* Properties of the checksum of the answers                               *)

\* the frame passes the checksum rule of main() for a frame of len bytes
PassesCksum(frame, len) ==
  bsdsum(Bytes56(frame.proto, frame.seq, frame.b58, frame.b59, frame.payload, len))
    = frame.cksum

\* C31: an answer to a request with the checksum flag has the flag set and
\* holds in bytes 54..55 the BSD sum of its bytes 56..len-1 as they are sent;
\* an answer to a request without the flag has bytes 54..55 zero and the flag
\* clear; answers from the cache included
C31_ReplyChecksum ==
  sent.len > 0
    => IF cksumflagOf(req) # 0
       THEN cksumflagOf(sent.frame) = 1 /\ PassesCksum(sent.frame, sent.len)
       ELSE cksumflagOf(sent.frame) = 0 /\ sent.frame.cksum = 0

\* the same for the answers that the dispatcher built
ReplyChecksumOnMiss == outcome = "reply" => C31_ReplyChecksum

-----------------------------------------------------------------------------
(* Properties of the paths the server works on                             *)

\* the host path (a string) stays below the root of drive C: its first
\* component is the root and none is '..'
InsideRoot(name) ==
  Let(Tokens(name, SLASH), LAMBDA t :
    /\ t # <<>> /\ t[1] = NameR
    /\ \A k \in 1..Len(t) : t[k] # NameDotDot)

\* the entries of the host file system that are not below the root
OutsideRoot(fs) == {q \in DOMAIN fs : q = <<>> \/ q[1] # NameR}

\* C32: the handle table holds no path outside the root of the drive, and
\* nothing outside the root is added, removed or changed
C32_StaysInsideRoot ==
  /\ \A i \in Slots : fsdb[i].name # NULL => InsideRoot(fsdb[i].name)
  /\ OutsideRoot(hostfs) = OutsideRoot(HostFs0)
  /\ \A q \in OutsideRoot(HostFs0) : hostfs[q] = HostFs0[q]

\* the handle table holds no path outside the root
HandlesInsideRoot ==
  \A i \in Slots : fsdb[i].name # NULL => InsideRoot(fsdb[i].name)

\* nothing is added outside the root
NothingAddedOutside == OutsideRoot(hostfs) \subseteq OutsideRoot(HostFs0)

-----------------------------------------------------------------------------
(* Properties of the reply cache with few clients                          *)

\* C33: with no more than 16 clients, a turn for a frame of one client
\* leaves every entry that holds an answer (len > 0) for another client as it
\* is, and a frame with the sequence number of the answer that the same
\* client got last is answered from the cache, with that answer
C33_ForeignRepliesKept ==
  [][(nframes' = nframes + 1 /\ outcome' # "drop")
       => /\ \A i \in CacheSlots :
               (answcache[i].len > 0 /\ answcache[i].frame.dst # req'.src)
                 => answcache'[i] = answcache[i]
          /\ (last[req'.src].seq = req'.seq /\ last[req'.src].sent.len > 0)
               => /\ outcome' = "hit"
                  /\ sent'.len = last[req'.src].sent.len
                  /\ SameButCksum(sent'.frame, last[req'.src].sent.frame)]_vars

\* C33 happens: all 16 entries hold answers for 16 clients, and client A is
\* answered from the cache although client B was answered in between
C33_Witness ==
  /\ outcome = "hit" /\ req.src = ClientA
  /\ \A i \in CacheSlots : answcache[i].len > 0
  /\ \A i, j \in CacheSlots : i # j => answcache[i].frame.dst # answcache[j].frame.dst
  /\ \E i, j \in CacheSlots :
       /\ answcache[i].frame.dst = ClientA /\ answcache[i].len > 0
       /\ answcache[j].frame.dst = ClientB /\ answcache[j].len > 0
       /\ answcache[j].timestamp > T0

-----------------------------------------------------------------------------
(* Properties of the requests with short payloads                          *)

\* the payload of the validated frame f is shorter than what makes the copy
\* lengths of its branch non-negative
ShortRequest(f) ==
  \/ f.al \in {AL_OPEN, AL_CREATE, AL_SPOPNFIL} /\ EffLen(f) - 60 < 6
  \/ f.al = AL_FINDFIRST /\ EffLen(f) - 60 < 2

\* C34: a validated frame with such a short payload is answered or ignored
C34_ShortPayloadHandled ==
  (outcome \notin {"none", "drop"} /\ ShortRequest(req))
    => outcome \in {"reply", "ignore", "hit"}

-----------------------------------------------------------------------------
(* Properties of the root flag of the searches                             *)

\* the host path names the root directory of drive C:
IsRootDir(name) == Namei(hostfs, name).ok /\ Namei(hostfs, name).path = <<NameR>>

\* what findfile() yields in the slot id of db from the cursor nth on, when
\* the entries that start with '.' are skipped in the root of the drive only
Expected(db, id, mask, attr, nth) ==
  findfile(hostfs, db, id, mask, attr, nth,
           Flags(IsRootDir(db[id].name), drivesfat[2] # 0))

\* the answer frame tells what the search r found in the slot id
Tells(frame, r, id) ==
  IF r.rc # 0 THEN AxOf(frame) = 18
  ELSE AxOf(frame) = 0 /\ frame.payload = FindPayload(r.f, id, r.nth)

\* C35: an answered FINDFIRST and an answered FINDNEXT both skip the entries
\* whose FCB name starts with '.' if and only if the directory searched is the
\* root of the drive: each answers with the next entry of the listing that
\* passes the mask and the attribute filter under that rule
C35_RootFlagAgrees ==
  [][(Turned /\ outcome' = "reply" /\ req'.al \in {AL_FINDFIRST, AL_FINDNEXT})
       => IF req'.al = AL_FINDNEXT
          THEN \A id \in {Rd16(req'.payload, 0)} :
                 (id \in Slots /\ fsdb[id].name # NULL)
                   => \A r \in {Expected(fsdb, id,
                                         [i \in 1..11 |-> At(req'.payload, 4 + i)],
                                         At(req'.payload, 4),
                                         Rd16(req'.payload, 2))} :
                        Tells(sent'.frame, r, id)
          ELSE \A t \in {InternedPath(req')} : \A i \in Slots :
                 fsdb'[i].name = t
                   => \A r \in {Expected(fsdb', i, MaskOf(From(req'.payload, 1)),
                                         At(req'.payload, 0), 0)} :
                        Tells(sent'.frame, r, i)]_vars

\* the same for FINDFIRST alone
FindfirstRootFlag ==
  [][(Turned /\ outcome' = "reply" /\ req'.al = AL_FINDFIRST)
       => \A t \in {InternedPath(req')} : \A i \in Slots :
            fsdb'[i].name = t
              => \A r \in {Expected(fsdb', i, MaskOf(From(req'.payload, 1)),
                                    At(req'.payload, 0), 0)} :
                   Tells(sent'.frame, r, i)]_vars

-----------------------------------------------------------------------------
(* Properties of MKDIR                                                     *)

\* the DOS path resolves to a directory of the file system fs
ResolvesToDir(fs, path) ==
  Let(shorttolong(fs, dospath(RootC, path), RootC), LAMBDA sl :
    sl.rc = 0 /\ Exists(fs, sl.dst) /\ NodeOf(fs, sl.dst).dir)

\* C36: after a MKDIR answered AX = 0 the requested path resolves to a
\* directory; a MKDIR below a directory that does not resolve, and one of a
\* path that resolves to a directory already, are answered AX = 29 and change
\* nothing
C36_MkdirMakesRequestedPath ==
  [][(Turned /\ outcome' = "reply" /\ req'.al = AL_MKDIR)
       => \A path \in {req'.payload} :
          /\ AxOf(sent'.frame) = 0 => ResolvesToDir(hostfs', path)
          /\ (~DirResolves(path) \/ ResolvesToDir(hostfs, path))
               => AxOf(sent'.frame) = 29 /\ hostfs' = hostfs]_vars

\* the same for the requests whose directory part resolves
MkdirBelowExistingDir ==
  [][(Turned /\ outcome' = "reply" /\ req'.al = AL_MKDIR
      /\ DirResolves(req'.payload))
       => \A path \in {req'.payload} :
          /\ AxOf(sent'.frame) = 0 => ResolvesToDir(hostfs', path)
          /\ ResolvesToDir(hostfs, path)
               => AxOf(sent'.frame) = 29 /\ hostfs' = hostfs]_vars

-----------------------------------------------------------------------------
(* Properties of the entries of the reply cache                            *)

\* no two entries of the cache hold the same client address, the address of
\* the entries never written apart
NoTwinEntries(cache) ==
  \A i \in CacheSlots :
    cache[i].frame.dst # ZeroMac
      => \A j \in (i + 1)..(ANSWCACHESZ - 1) : cache[i].frame.dst # cache[j].frame.dst

\* C37: no two entries of the reply cache hold the same non-zero client
\* address, and a frame answered from the cache is answered from the one
\* entry of its client, with the answer that the last turn for this client
\* left there
C37_OneEntryPerClient ==
  /\ NoTwinEntries(answcache)
  /\ [][/\ NoTwinEntries(answcache')
        /\ (Turned /\ outcome' = "hit")
             => /\ \E i \in CacheSlots :
                     /\ answcache[i].frame.dst = req'.src
                     /\ \A j \in CacheSlots \ {i} :
                          answcache[j].frame.dst # req'.src
                     /\ sent'.len = answcache[i].len
                     /\ SameButCksum(sent'.frame, answcache[i].frame)
                /\ last[req'.src].seq = req'.seq
                /\ last[req'.src].sent.len = sent'.len
                /\ SameButCksum(sent'.frame, last[req'.src].sent.frame)]_vars

\* C37 happens: client B is answered from the cache while client A has an
\* entry of its own
C37_Witness ==
  /\ outcome = "hit" /\ req.src = ClientB
  /\ \E i \in CacheSlots : answcache[i].frame.dst = ClientA
  /\ Cardinality({i \in CacheSlots : answcache[i].frame.dst = ClientB}) = 1

----------------------------------------------------------------------------

\* the FINDNEXTs of client c answered after the frame t that pass the cursor
\* (id, pos) of a search with attr and mask
Continuing(c, t, id, pos, attr, mask) ==
  {m \in memo : /\ m.req.src = c /\ m.req.al = AL_FINDNEXT /\ m.at > t
                /\ Rd16(m.req.payload, 0) = id /\ Rd16(m.req.payload, 2) = pos
                /\ At(m.req.payload, 4) = attr
                /\ [i \in 1..11 |-> At(m.req.payload, 4 + i)] = mask}

RECURSIVE SearchFrom(_, _, _, _, _, _)
\* what client c got by passing the cursor (id, pos) that the answer to the
\* frame t handed it, and then each cursor it was handed: the names in the order of the answers, and whether the search
\* got to an answer with no entry
SearchFrom(c, t, id, pos, attr, mask) ==
  UNION {IF AxOf(m.sent.frame) # 0 THEN {[done |-> TRUE, seen |-> <<>>]}
         ELSE {[done |-> s.done,
                seen |-> <<SubSeq(m.sent.frame.payload, 2, 12)>> \o s.seen] :
                 s \in SearchFrom(c, m.at, id, Rd16(m.sent.frame.payload, 22),
                                  attr, mask)} :
           m \in Continuing(c, t, id, pos, attr, mask)}
    \cup (IF Continuing(c, t, id, pos, attr, mask) = {}
          THEN {[done |-> FALSE, seen |-> <<>>]} ELSE {})

\* the searches of a client that an answered FINDFIRST m0 started
SearchesOf(m0) ==
  Let(IterStart(m0.req.payload, Len(m0.req.payload), m0.fs, m0.sent.frame),
      LAMBDA it :
    IF it.done THEN {[it |-> it, done |-> TRUE, seen |-> <<>>]}
    ELSE {[it |-> it, done |-> s.done, seen |-> it.seen \o s.seen] :
            s \in SearchFrom(m0.req.src, m0.at, it.dirss, it.fpos, it.attr,
                             it.mask)})

\* the entries a search has to return: those of the directory that pass its
\* mask and attribute filter, the entries starting with '.' left out in the
\* root of the drive only
Owed(it) == Matching([it EXCEPT !.isroot = IsRootDir(it.dir)])

\* C38: whatever the order in which the server receives the FINDFIRSTs and
\* FINDNEXTs of two clients over a directory that does not change, a client
\* whose search went from its FINDFIRST through its own cursors to AX = 18
\* has got every entry that matches its own mask once, in listing order
C38_InterleavedSearchesComplete ==
  \A m0 \in memo :
    m0.req.al = AL_FINDFIRST
      => \A s \in SearchesOf(m0) : s.done => s.seen = Owed(s.it)

\* both clients finished their searches of the root of the drive, the
\* FINDFIRST of one answered between the FINDFIRST and a FINDNEXT of the other
BothSearchedRoot ==
  /\ \A c \in {ClientA, ClientB} :
       \E m0 \in memo : /\ m0.req.src = c /\ m0.req.al = AL_FINDFIRST
                        /\ \E s \in SearchesOf(m0) :
                             s.done /\ IsRootDir(s.it.dir) /\ Len(s.seen) > 0
  /\ \E a0 \in memo, b0 \in memo, a1 \in memo :
       /\ a0.req = FindFirstReq(ClientA, 7, PathRootAll)
       /\ b0.req = FindFirstReq(ClientB, 7, PathRootTxt)
       /\ a1.req = FindNextReq(ClientA, 8, 0, 3)
       /\ a0.at < b0.at /\ b0.at < a1.at

\* the searches of the root of the drive are complete in every order of the
\* two clients' requests
RootSearchesComplete ==
  \A m0 \in memo :
    m0.req.al = AL_FINDFIRST
      => \A s \in SearchesOf(m0) :
           (s.done /\ IsRootDir(s.it.dir)) => s.seen = Owed(s.it)

====
